---------------------------- MODULE Spec2Model ----------------------------
(***************************************************************************)
(* A model of the isitfluffy snow pipeline: the hourly classifier          *)
(* (snowfall.js), the two daily aggregators (aggregate_historic.js and     *)
(* fetch_data.js), the season accumulator (addAccumulatedSnowfall), the    *)
(* partial-day estimator (app.js) and the season aligner of the compare    *)
(* page (app.js).                                                          *)
(*                                                                         *)
(* Units.  JavaScript numbers are modelled in fixed point:                 *)
(*   temperature  tenths of a degree C      precipitation  tenths of a mm  *)
(*   wind         tenths of a m/s           humidity       whole percent   *)
(*   snowfall_cm  hundredths of a cm        slr            tenths          *)
(*   instants     minutes since 1970-01-01T00:00Z                          *)
(*   dates        days since 1970-01-01 (the value of a 'YYYY-MM-DD' key)  *)
(* A value that may be missing (undefined, null, NaN, a blank CSV cell) is *)
(* a record [def, v]; see JsNone and Num.                                  *)
(*                                                                         *)
(* Each behaviour is a run of one of the repository's programs, named by   *)
(* the variable program; the programs share no memory.                     *)
(***************************************************************************)
EXTENDS Integers, Sequences, FiniteSets, TLC

VARIABLES
    program,        \* which program of the repository this behaviour runs
    host,           \* the runtime: [tz: local zone of Date, h24: hour12:false prints midnight as 24]
    weatherFile,    \* fetch_data.js: data/weather_data.csv, the stored hourly table
    aggregatedFile, \* fetch_data.js: data/aggregated_data.csv, the daily table
    runs,           \* fetch_data.js: how many times the recompute has run
    outcome,        \* fetch_data.js: how the last run of main or of the recompute ended
    apiResponse,    \* fetch_data.js: the entries of dataByTime in the last run of main
    hourlyData,     \* aggregate_historic.js: the combined hourly records of a run
    aggregated,     \* aggregate_historic.js: the daily records of a run, each with its season
    rows,           \* addAccumulatedSnowfall: the rows argument
    cutoffDate,     \* addAccumulatedSnowfall: options.cutoffDate
    result,         \* addAccumulatedSnowfall: the returned rows
    seasonData,     \* compare page: the parsed rows of one season file
    today,          \* compare page: the wall-clock date (Europe/Stockholm) of the visit
    seasonRecord,   \* compare page: what processSeasonData returned
    dateStr,        \* compare page: the argument of a dateToDayOfSeason call
    dayOfSeason,    \* compare page: what that call returned
    last24,         \* front page: the 24 hourly entries fetchLast24Hours returned
    todayValue,     \* front page: what calculateTodayFromHourly returned
    fetched,        \* front page: dataByTime, the readings the parameter fetches gave
    clock,          \* front page: new Date() at the visit
    dailySeries,    \* front page: what prepareDailySeries returned
    historicFiles,  \* data/historic: the rows of each season file that exists, by start year
    currentTable,   \* compare page: the rows of data/aggregated_data.csv it fetched
    allSeasonsData, \* compare page: what loadAllSeasons returned
    currentView,    \* compare page: 'periods' or 'band'
    stats,          \* compare page: what calculateStats returned
    chart,          \* compare page: the periods or the bands of the rendered chart
    urlYear,        \* history page: the year parameter of the URL
    availableSeasons, \* history page: the season list of the navigation
    shownYear,      \* history page: the season whose chart is shown
    prevLink,       \* history page: the year the previous-season link leads to
    nextLink,       \* history page: the year the next-season link leads to
    inFlight,       \* history page: the years of the loadSeason calls awaiting their fetch
    requested,      \* history page: the year of the latest loadSeason call
    overlapped,     \* history page: that call began while another awaited its fetch
    navShown,       \* history page: the navigation container is displayed
    historyEntries, \* history page: the session history, each entry its state and URL year
    position,       \* history page: the current entry of the session history
    promises,       \* a fetch: the state of each parameter's request
    mergedByTime,   \* a fetch: the values merged by timestamp
    fetchResult,    \* a fetch: what the operation resolved or rejected with
    snowArgs,       \* the classifier: the arguments of a call of calculateSnowfall
    snowCm,         \* the classifier: what the call returned
    instant,        \* local time: the Date handed to the local-time functions
    localTimes      \* local time: the hour, date and day key each component computed

\* the state of each program
jobVars == <<weatherFile, aggregatedFile, runs, outcome, apiResponse>>

historicVars == <<hourlyData, aggregated>>

accVars == <<rows, cutoffDate, result>>

seasonVars == <<seasonData, today, seasonRecord>>

axisVars == <<dateStr, dayOfSeason>>

pageVars == <<last24, todayValue, fetched, clock, dailySeries>>

compareVars == <<currentTable, allSeasonsData, currentView, stats, chart>>

historyVars == <<urlYear, availableSeasons, shownYear, prevLink, nextLink>>

seasonFilesVars == <<historicFiles, compareVars, historyVars>>

fetchVars == <<promises, mergedByTime, fetchResult>>

classifierVars == <<snowArgs, snowCm>>

clockVars == <<instant, localTimes>>

loadVars == <<inFlight, requested, overlapped, navShown, historyEntries, position>>

vars == <<program, host, jobVars, historicVars, accVars, seasonVars, axisVars, pageVars,
          seasonFilesVars, fetchVars, classifierVars, clockVars, loadVars>>

-----------------------------------------------------------------------------
(* JavaScript values *)

\* undefined, null, NaN or a blank CSV cell: no number here
JsNone == [def |-> FALSE, v |-> 0]

\* a number
Num(n) == [def |-> TRUE, v |-> n]

\* a === n
JsIs(a, n) == a.def /\ a.v = n

\* a < n and a > n: false when a is undefined or NaN
JsLt(a, n) == a.def /\ a.v < n

JsGt(a, n) == a.def /\ a.v > n

\* a || d
JsOr(a, d) == IF a.def /\ a.v # 0 THEN a.v ELSE d

\* Math.round of n/d for n >= 0, d > 0 (toFixed rounds half up on these values)
RoundDiv(n, d) == (2 * n + d) \div (2 * d)

Max(S) == CHOOSE x \in S : \A y \in S : y <= x

Min(S) == CHOOSE x \in S : \A y \in S : x <= y

RECURSIVE SumSeq(_)
SumSeq(s) == IF s = <<>> THEN 0 ELSE Head(s) + SumSeq(Tail(s))

Range(s) == {s[i] : i \in DOMAIN s}

-----------------------------------------------------------------------------
(* The calendar of Date: proleptic Gregorian, days counted from 1970-01-01 *)

\* Date.UTC(y, m, d) / 86400000, m in 1..12
DaysFromCivil(y, m, d) ==
    LET yy  == IF m <= 2 THEN y - 1 ELSE y
        era == yy \div 400
        yoe == yy - era * 400
        mp  == IF m > 2 THEN m - 3 ELSE m + 9
        doy == (153 * mp + 2) \div 5 + d - 1
        doe == yoe * 365 + yoe \div 4 - yoe \div 100 + doy
    IN  era * 146097 + doe - 719468

\* getUTCFullYear / getUTCMonth + 1 / getUTCDate of day n
CivilFromDays(n) ==
    LET z   == n + 719468
        era == z \div 146097
        doe == z - era * 146097
        yoe == (doe - doe \div 1460 + doe \div 36524 - doe \div 146096) \div 365
        doy == doe - (365 * yoe + yoe \div 4 - yoe \div 100)
        mp  == (5 * doy + 2) \div 153
        d   == doy - (153 * mp + 2) \div 5 + 1
        m   == IF mp < 10 THEN mp + 3 ELSE mp - 9
        y   == yoe + era * 400 + (IF m <= 2 THEN 1 ELSE 0)
    IN  [year |-> y, month |-> m, day |-> d]

\* getUTCDay: 0 = Sunday
Weekday(n) == (n + 4) % 7

\* an instant from its UTC fields
Instant(y, m, d, hh, mi) == (DaysFromCivil(y, m, d) * 24 + hh) * 60 + mi

UtcDay(t) == t \div 1440

UtcHour(t) == (t % 1440) \div 60

\* the day number of the last Sunday of a 31-day month
LastSunday(y, m) == DaysFromCivil(y, m, 31) - Weekday(DaysFromCivil(y, m, 31))

\* Europe/Stockholm: UTC+2 from the last Sunday of March 01:00 UTC to the last
\* Sunday of October 01:00 UTC, UTC+1 otherwise (offset in minutes)
SummerTime(t, y) ==
    /\ t >= (LastSunday(y, 3) * 24 + 1) * 60
    /\ t <  (LastSunday(y, 10) * 24 + 1) * 60

StockholmOffset(t) ==
    IF SummerTime(t, CivilFromDays(UtcDay(t)).year) THEN 120 ELSE 60

\* the zone offset of the runtime's local time at instant t
ZoneOffset(tz, t) == IF tz = "Europe/Stockholm" THEN StockholmOffset(t) ELSE 0

\* local wall-clock minutes -> instant: a skipped or repeated local time is read
\* with the offset in force before the transition
LocalToInstant(tz, loc) ==
    IF tz = "Europe/Stockholm"
    THEN IF StockholmOffset(loc - 120) = 120 THEN loc - 120 ELSE loc - 60
    ELSE loc

\* d.setDate(d.getDate() + k): local calendar stepping in the runtime's zone
SetDatePlus(tz, t, k) == LocalToInstant(tz, t + ZoneOffset(tz, t) + k * 1440)

\* d.setUTCDate(d.getUTCDate() + k)
SetUTCDatePlus(t, k) == t + k * 1440

\* new Date('YYYY-MM-DD'): a date-only string is UTC midnight of that date
ParseDate(dateKey) == dateKey * 1440

\* getFullYear / getMonth / getDate of an instant in the runtime's zone
\* (month is 0-indexed as in JavaScript)
MonthFromZero(c) == [year |-> c.year, month |-> c.month - 1, day |-> c.day]

LocalFields(tz, t) == MonthFromZero(CivilFromDays((t + ZoneOffset(tz, t)) \div 1440))

-----------------------------------------------------------------------------
(* The runtimes the programs run on *)

\* The Date zone is UTC (the scheduled job) or Europe/Stockholm (a machine at
\* the station's location); h24 says whether Intl prints midnight as hour 24
\* under hour12: false (engines resolving it to the h24 cycle) or as hour 0.
Hosts == [tz : {"UTC", "Europe/Stockholm"}, h24 : BOOLEAN]

\* the runtimes told apart by programs that format no hour with hour12: false
DateHosts == {h \in Hosts : h.h24 = FALSE}

-----------------------------------------------------------------------------
(* addAccumulatedSnowfall (accumulation.js, kept in README.md)             *)

DEFAULT_SEASON_START_MONTH == 10

DEFAULT_SEASON_START_DAY == 1

\* the text '-1' of a rain day, in hundredths of a cm
RainCm == -100

\* [...rows].sort((a, b) => new Date(a.date) - new Date(b.date)): stable
RECURSIVE InsertByDate(_, _)
InsertByDate(sorted, row) ==
    IF sorted = <<>> THEN <<row>>
    ELSE IF ParseDate(sorted[Len(sorted)].date) <= ParseDate(row.date)
         THEN Append(sorted, row)
         ELSE Append(InsertByDate(SubSeq(sorted, 1, Len(sorted) - 1), row),
                     sorted[Len(sorted)])

RECURSIVE SortByDate(_)
SortByDate(rs) ==
    IF rs = <<>> THEN <<>>
    ELSE InsertByDate(SortByDate(SubSeq(rs, 1, Len(rs) - 1)), rs[Len(rs)])

\* the winter year bucket of a date with local fields f
WinterYear(f, seasonStartMonth, seasonStartDay) ==
    IF f.month < seasonStartMonth \/ (f.month = seasonStartMonth /\ f.day < seasonStartDay)
    THEN f.year - 1
    ELSE f.year

\* month === seasonStartMonth && day === seasonStartDay
IsSeasonStart(f, seasonStartMonth, seasonStartDay) ==
    f.month = seasonStartMonth /\ f.day = seasonStartDay

\* mutant: the day of the month is not compared, every day of the start month resets
ResetsAllOfStartMonth(f, winterYear, currentWinterYear, seasonStartMonth, seasonStartDay) ==
    \/ f.month = seasonStartMonth
    \/ ~currentWinterYear.def
    \/ winterYear # currentWinterYear.v

\* mutant: the reset on a change of winter is lost
ResetsOnSeasonStartOnly(f, winterYear, currentWinterYear, seasonStartMonth, seasonStartDay) ==
    \/ IsSeasonStart(f, seasonStartMonth, seasonStartDay)
    \/ ~currentWinterYear.def

\* whether the row sets accumulated back to 0: the season-start date, the first
\* row met, or a winter other than the one being accumulated
Resets(f, winterYear, currentWinterYear, seasonStartMonth, seasonStartDay) ==
    \/ IsSeasonStart(f, seasonStartMonth, seasonStartDay)
    \/ ~currentWinterYear.def
    \/ winterYear # currentWinterYear.v

\* mutant: every parsed value is added, the rain sentinel included
AddedAnyValue(snowfall_cm) == IF snowfall_cm.def THEN snowfall_cm.v ELSE 0

\* what the row adds to accumulated: snowfallVal when !isRain && isSnow
Added(snowfall_cm) ==
    LET isRain == JsIs(snowfall_cm, RainCm)
        isSnow == JsGt(snowfall_cm, 0)
    IN  IF ~isRain /\ isSnow THEN snowfall_cm.v ELSE 0

\* mutant: the row dated on the cutoff is dropped too
OnOrBeforeCutoff(dateObj, cutoff) == cutoff.def /\ dateObj <= cutoff.v

\* cutoff && dateObj < cutoff
BeforeCutoff(dateObj, cutoff) == cutoff.def /\ dateObj < cutoff.v

\* the for loop over the sorted rows, from row i on
RECURSIVE AccumulateFrom(_, _, _, _, _, _, _, _)
AccumulateFrom(tz, sorted, i, accumulated, currentWinterYear, out, opts, cutoff) ==
    IF i > Len(sorted) THEN out
    ELSE
      LET row     == sorted[i]
          dateObj == ParseDate(row.date)
      IN  IF BeforeCutoff(dateObj, cutoff)
          THEN AccumulateFrom(tz, sorted, i + 1, accumulated, currentWinterYear, out, opts, cutoff)
          ELSE
            LET f          == LocalFields(tz, dateObj)
                winterYear == WinterYear(f, opts.seasonStartMonth, opts.seasonStartDay)
                reset      == Resets(f, winterYear, currentWinterYear,
                                     opts.seasonStartMonth, opts.seasonStartDay)
                base       == IF reset THEN 0 ELSE accumulated
                acc        == base + Added(row.snowfall_cm)
            IN  AccumulateFrom(tz, sorted, i + 1, acc, Num(winterYear),
                               Append(out, [accumulated_snowfall_cm |-> acc] @@ row),
                               opts, cutoff)

\* addAccumulatedSnowfall(rows, { seasonStartMonth, seasonStartDay, cutoffDate })
addAccumulatedSnowfall(tz, rs, opts) ==
    LET cutoff == IF opts.cutoffDate.def THEN Num(ParseDate(opts.cutoffDate.v)) ELSE JsNone
    IN  AccumulateFrom(tz, SortByDate(rs), 1, 0, JsNone, <<>>, opts, cutoff)

\* the options every caller in the repository passes, with the cutoff c
Options(c) == [seasonStartMonth |-> DEFAULT_SEASON_START_MONTH,
               seasonStartDay   |-> DEFAULT_SEASON_START_DAY,
               cutoffDate       |-> c]

-----------------------------------------------------------------------------
(* The accumulator on its own: any rows, with and without a cutoff *)

\* longest rows argument
MaxRows == 3

\* the dates rows are drawn from: the day before a season start, the first
\* three days of that season, the next season's start and the day after it
AccDates == { DaysFromCivil(2025, 10, 31), DaysFromCivil(2025, 11, 1),
              DaysFromCivil(2025, 11, 2), DaysFromCivil(2025, 11, 3),
              DaysFromCivil(2026, 11, 1), DaysFromCivil(2026, 11, 2) }

\* snowfall_cm cells: rain, no snow, 3.00 cm
AccSnowfalls == { Num(RainCm), Num(0), Num(300) }

AccRows == [date : AccDates, snowfall_cm : AccSnowfalls]

\* options.cutoffDate: none, the one fetch_data.js passes, or the day after it
AccCutoffs == { JsNone, Num(DaysFromCivil(2025, 11, 1)), Num(DaysFromCivil(2025, 11, 2)) }

NotCalled == [called |-> FALSE, out |-> <<>>]

\* a program that does not run in this behaviour: its state stays as constructed
IdleJob ==
    weatherFile = <<>> /\ aggregatedFile = <<>> /\ runs = 0 /\ outcome = "" /\ apiResponse = <<>>

IdleHistoric == hourlyData = <<>> /\ aggregated = NotCalled

IdleAcc == rows = <<>> /\ cutoffDate = JsNone /\ result = NotCalled

IdleSeason == seasonData = <<>> /\ today = 0 /\ seasonRecord = NotCalled

IdleAxis == dateStr = 0 /\ dayOfSeason = JsNone

IdlePage ==
    /\ last24 = <<>> /\ todayValue = NotCalled
    /\ fetched = {} /\ clock = 0 /\ dailySeries = NotCalled

IdleCompare ==
    /\ currentTable = <<>> /\ allSeasonsData = NotCalled /\ currentView = "periods"
    /\ stats = NotCalled /\ chart = NotCalled

IdleHistory ==
    /\ urlYear = JsNone /\ availableSeasons = <<>> /\ shownYear = JsNone
    /\ prevLink = JsNone /\ nextLink = JsNone

IdleSeasonFiles == historicFiles = <<>> /\ IdleCompare /\ IdleHistory

IdleLoads ==
    /\ inFlight = <<>> /\ requested = JsNone /\ overlapped = FALSE /\ navShown = FALSE
    /\ historyEntries = <<>> /\ position = 0

IdleFetch == promises = <<>> /\ mergedByTime = <<>> /\ fetchResult = NotCalled

IdleClassifier == snowArgs = <<>> /\ snowCm = NotCalled

IdleClock == instant = 0 /\ localTimes = NotCalled

InitAcc ==
    /\ program = "accumulate"
    /\ host \in DateHosts
    /\ rows = <<>>
    /\ cutoffDate \in AccCutoffs
    /\ result = NotCalled
    /\ IdleJob /\ IdleHistoric /\ IdleSeason /\ IdleAxis /\ IdlePage /\ IdleSeasonFiles /\ IdleFetch
    /\ IdleClassifier /\ IdleClock /\ IdleLoads

\* the caller builds the rows argument
PushRow ==
    /\ program = "accumulate"
    /\ ~result.called
    /\ Len(rows) < MaxRows
    /\ \E r \in AccRows : rows' = Append(rows, r)
    /\ UNCHANGED <<program, host, cutoffDate, result,
                   jobVars, historicVars, seasonVars, axisVars, pageVars,
                   seasonFilesVars, fetchVars, classifierVars, clockVars, loadVars>>

\* the call
Accumulate ==
    /\ program = "accumulate"
    /\ ~result.called
    /\ result' = [called |-> TRUE,
                  out |-> addAccumulatedSnowfall(host.tz, rows, Options(cutoffDate))]
    /\ UNCHANGED <<program, host, rows, cutoffDate,
                   jobVars, historicVars, seasonVars, axisVars, pageVars,
                   seasonFilesVars, fetchVars, classifierVars, clockVars, loadVars>>

NextAcc == PushRow \/ Accumulate

SpecAcc == InitAcc /\ [][NextAcc]_vars

-----------------------------------------------------------------------------
(* Properties of the accumulator's output *)

Out == result.out

\* the local calendar fields of output row i, as the accumulator reads them
OutFields(i) == LocalFields(host.tz, ParseDate(Out[i].date))

OnSeasonStart(i) ==
    /\ OutFields(i).month = DEFAULT_SEASON_START_MONTH
    /\ OutFields(i).day = DEFAULT_SEASON_START_DAY

\* the start year of the winter output row i falls in
WinterOf(i) ==
    IF \/ OutFields(i).month < DEFAULT_SEASON_START_MONTH
       \/ (OutFields(i).month = DEFAULT_SEASON_START_MONTH
           /\ OutFields(i).day < DEFAULT_SEASON_START_DAY)
    THEN OutFields(i).year - 1 ELSE OutFields(i).year

NewWinter(i) == i > 1 /\ WinterOf(i) # WinterOf(i - 1)

IsRainRow(i) == Out[i].snowfall_cm.def /\ Out[i].snowfall_cm.v = RainCm

\* the snow a row reports: its snowfall_cm when that is a positive amount
SnowOf(i) ==
    IF Out[i].snowfall_cm.def /\ Out[i].snowfall_cm.v > 0 THEN Out[i].snowfall_cm.v ELSE 0

\* the running value at row i before the row's own snowfall was added
RunningBefore(i) == Out[i].accumulated_snowfall_cm - SnowOf(i)

\* C3 as stated: the running value is 0 at a row exactly when the row is dated on
\* the season start; at every other row after the first it is the previous row's
\* accumulated value.
C3_ResetOnlyOnSeasonStart ==
    result.called =>
        \A i \in 1..Len(Out) :
            /\ OnSeasonStart(i) => RunningBefore(i) = 0
            /\ (i > 1 /\ ~OnSeasonStart(i)) =>
                   RunningBefore(i) = Out[i - 1].accumulated_snowfall_cm

\* C3 amended: the running value is 0 at the first retained row, at a row dated
\* on the season start and at a row of another winter than the previous retained
\* row; at every other row it is the previous retained row's accumulated value.
C3_ResetOnSeasonStartOrNewWinter ==
    result.called =>
        \A i \in 1..Len(Out) :
            IF i = 1 \/ OnSeasonStart(i) \/ NewWinter(i)
            THEN RunningBefore(i) = 0
            ELSE RunningBefore(i) = Out[i - 1].accumulated_snowfall_cm

\* C3 witness: an output with a row of a new winter that is not dated on the
\* season start, a row dated on the season start, each after a row that had
\* accumulated snow, and a row that carries the previous value on.
C3_Witness ==
    /\ result.called
    /\ \E i \in 2..Len(Out) :
           /\ NewWinter(i) /\ ~OnSeasonStart(i)
           /\ Out[i - 1].accumulated_snowfall_cm > 0
           /\ RunningBefore(i) = 0
    /\ \E i \in 2..Len(Out) :
           /\ OnSeasonStart(i)
           /\ Out[i - 1].accumulated_snowfall_cm > 0
           /\ RunningBefore(i) = 0

\* the rows of the scenario: no row for Nov 1, 3.00 cm on Nov 2, rain on Nov 3
ScenarioRows ==
    << [date |-> DaysFromCivil(2025, 11, 2), snowfall_cm |-> Num(300)],
       [date |-> DaysFromCivil(2025, 11, 3), snowfall_cm |-> Num(RainCm)] >>

\* the scenario's result: two rows, none for Nov 1, accumulated 3.00 and 3.00
ScenarioHolds ==
    (result.called /\ rows = ScenarioRows) =>
        /\ Len(Out) = 2
        /\ Out[1].date = DaysFromCivil(2025, 11, 2)
        /\ Out[1].accumulated_snowfall_cm = 300
        /\ Out[2].date = DaysFromCivil(2025, 11, 3)
        /\ Out[2].accumulated_snowfall_cm = 300

\* C4 as stated: every retained rain row not dated on the season start carries
\* the accumulated value of the preceding retained row; and the scenario.
C4_RainCarriesPrevious ==
    /\ result.called =>
           \A i \in 2..Len(Out) :
               (IsRainRow(i) /\ ~OnSeasonStart(i)) =>
                   Out[i].accumulated_snowfall_cm = Out[i - 1].accumulated_snowfall_cm
    /\ ScenarioHolds

\* C4 amended: every retained rain row that is not dated on the season start and
\* lies in the same winter as the preceding retained row carries that row's
\* accumulated value; and the scenario.
C4_RainCarriesPreviousSameWinter ==
    /\ result.called =>
           \A i \in 2..Len(Out) :
               (IsRainRow(i) /\ ~OnSeasonStart(i) /\ ~NewWinter(i)) =>
                   Out[i].accumulated_snowfall_cm = Out[i - 1].accumulated_snowfall_cm
    /\ ScenarioHolds

\* C4 witness: the scenario has run
C4_Witness ==
    /\ result.called
    /\ rows = ScenarioRows
    /\ Len(Out) = 2
    /\ IsRainRow(2)
    /\ Out[2].accumulated_snowfall_cm = 300

\* C7 as stated: of two consecutive retained rows the later one's accumulated
\* value is at least the earlier one's unless the later is dated on the season
\* start.
C7_MonotoneExceptSeasonStart ==
    result.called =>
        \A i \in 2..Len(Out) :
            ~OnSeasonStart(i) =>
                Out[i].accumulated_snowfall_cm >= Out[i - 1].accumulated_snowfall_cm

\* C7 amended: of two consecutive retained rows the later one's accumulated value
\* is at least the earlier one's unless the later is dated on the season start
\* or lies in another winter than the earlier.
C7_MonotoneWithinWinter ==
    result.called =>
        \A i \in 2..Len(Out) :
            (~OnSeasonStart(i) /\ ~NewWinter(i)) =>
                Out[i].accumulated_snowfall_cm >= Out[i - 1].accumulated_snowfall_cm

\* C7 witness: within one winter the value grows through snow and stays through
\* rain
C7_Witness ==
    /\ result.called
    /\ Len(Out) = 3
    /\ ~OnSeasonStart(2) /\ ~NewWinter(2) /\ ~OnSeasonStart(3) /\ ~NewWinter(3)
    /\ Out[1].accumulated_snowfall_cm > 0
    /\ Out[2].accumulated_snowfall_cm > Out[1].accumulated_snowfall_cm
    /\ IsRainRow(3)
    /\ Out[3].accumulated_snowfall_cm = Out[2].accumulated_snowfall_cm

\* the positive snowfall of the retained rows of the winter of row i that are
\* dated on or before row i
WinterSnowUpTo(i) ==
    SumSeq([j \in 1..Len(Out) |->
               IF WinterOf(j) = WinterOf(i) /\ Out[j].date <= Out[i].date
               THEN SnowOf(j) ELSE 0])

\* no two rows of the argument have the same date
DistinctDates == \A i, j \in DOMAIN rows : i # j => rows[i].date # rows[j].date

FromCutoffOn == SelectSeq(rows, LAMBDA r : r.date >= cutoffDate.v)

\* C23: with a cutoff date, addAccumulatedSnowfall emits no row dated before the
\* cutoff, keeps every row dated on the cutoff, and gives the emitted rows the
\* accumulated values they have when the rows before the cutoff are not in the
\* input at all
C23_CutoffDropsEntirely ==
    (result.called /\ cutoffDate.def) =>
        /\ \A i \in 1..Len(Out) : Out[i].date >= cutoffDate.v
        /\ \A k \in DOMAIN rows :
               rows[k].date = cutoffDate.v =>
                   \E i \in 1..Len(Out) :
                       Out[i].date = rows[k].date /\ Out[i].snowfall_cm = rows[k].snowfall_cm
        /\ Out = addAccumulatedSnowfall(host.tz, FromCutoffOn, Options(JsNone))

\* C23 witness: with a cutoff inside a winter, a row with snow before the cutoff,
\* a row on the cutoff and a row after it: two rows come out, and the snow
\* before the cutoff is in neither
C23_Witness ==
    /\ result.called /\ cutoffDate.def
    /\ Len(rows) = 3 /\ Len(Out) = 2
    /\ \E k \in DOMAIN rows : rows[k].date < cutoffDate.v /\ rows[k].snowfall_cm = Num(300)
    /\ cutoffDate.v = DaysFromCivil(2025, 11, 2)
    /\ Out[1].date = cutoffDate.v
    /\ Out[2].date > cutoffDate.v /\ ~NewWinter(2)
    /\ Out[2].accumulated_snowfall_cm = SnowOf(1) + SnowOf(2)

-----------------------------------------------------------------------------
(* The compare page (app.js): the 182-slot season axis *)

\* new Array(182): the slots of a season series
SeasonSlots == 182

\* the if chain of dateToDayOfSeason on month = date.getMonth() and
\* day = date.getDate(): November..April from their offsets, -1 otherwise
DayOfSeason(month, day) ==
    CASE month = 10 -> day - 1
      [] month = 11 -> 30 + day - 1
      [] month = 0  -> 61 + day - 1
      [] month = 1  -> 92 + day - 1
      [] month = 2  -> 120 + day - 1
      [] month = 3  -> 151 + day - 1
      [] OTHER      -> -1

\* dateToDayOfSeason(dateStr): the slot of a date, -1 outside November..April
dateToDayOfSeason(tz, dateKey) ==
    DayOfSeason(LocalFields(tz, ParseDate(dateKey)).month,
                LocalFields(tz, ParseDate(dateKey)).day)

\* getTodayDayOfSeason(): the slot of the wall-clock date in Europe/Stockholm
getTodayDayOfSeason(tz, todayKey) == dateToDayOfSeason(tz, todayKey)

\* dayIndex >= 0 && dayIndex < 182 && dayIndex <= todayIndex
WritesSlot(dayIndex, todayIndex) ==
    dayIndex >= 0 /\ dayIndex < SeasonSlots /\ dayIndex <= todayIndex

\* data.forEach(row => ...): the slots written by the rows from row k on
RECURSIVE WriteRows(_, _, _, _, _, _)
WriteRows(tz, data, k, dailyData, runningTotal, todayIndex) ==
    IF k > Len(data) THEN [dailyData |-> dailyData, runningTotal |-> runningTotal]
    ELSE
      LET dayIndex == dateToDayOfSeason(tz, data[k].date)
      IN  IF WritesSlot(dayIndex, todayIndex)
          THEN LET rt == IF JsGt(data[k].snowfall_cm, 0)
                         THEN runningTotal + data[k].snowfall_cm.v
                         ELSE runningTotal
               IN  WriteRows(tz, data, k + 1,
                             [dailyData EXCEPT ![dayIndex] = Num(RoundDiv(rt, 10))],
                             rt, todayIndex)
          ELSE WriteRows(tz, data, k + 1, dailyData, runningTotal, todayIndex)

\* mutant: lastValue is never updated, every gap reads 0
FillSlotNoCarry(st, i) ==
    IF ~st.dailyData[i].def
    THEN [st EXCEPT !.dailyData[i] = Num(st.lastValue)]
    ELSE st

\* one turn of the forward-fill loop: an unset slot takes lastValue, a set slot
\* becomes lastValue
FillSlot(st, i) ==
    IF ~st.dailyData[i].def
    THEN [st EXCEPT !.dailyData[i] = Num(st.lastValue)]
    ELSE [st EXCEPT !.lastValue = st.dailyData[i].v]

\* the turns lo..hi of the loop in order: the turns lo..mid, then the turns
\* mid+1..hi from the state they leave (halved to bound the evaluation depth;
\* the singleton sets bind mid and the intermediate state to their values)
RECURSIVE FillRange(_, _, _)
FillRange(st, lo, hi) ==
    IF lo > hi THEN st
    ELSE IF lo = hi THEN FillSlot(st, lo)
    ELSE CHOOSE after \in UNION { { FillRange(left, mid + 1, hi) :
                                    left \in {FillRange(st, lo, mid)} } :
                                  mid \in {(lo + hi) \div 2} } : TRUE

\* mutant: the current season is filled to the end like a completed one
FillLimitToEnd(isCurrentSeason, todayIndex) == SeasonSlots - 1

\* the last slot the forward-fill loop visits: i < dailyData.length for a completed
\* season, i <= todayIndex && i < dailyData.length for the current one
FillLimit(isCurrentSeason, todayIndex) ==
    IF isCurrentSeason /\ todayIndex < SeasonSlots - 1 THEN todayIndex ELSE SeasonSlots - 1

\* let lastValue = 0; for (let i = 0; ...; i++) { ... }
ForwardFill(dailyData, isCurrentSeason, todayIndex) ==
    CHOOSE filled \in { FillRange(st, 0, limit).dailyData :
                        st \in {[dailyData |-> dailyData, lastValue |-> 0]},
                        limit \in {FillLimit(isCurrentSeason, todayIndex)} } : TRUE

\* slot values are tenths of a cm; runningTotal is hundredths
SlotOr(dailyData, i, runningTotal) ==
    IF i \in DOMAIN dailyData /\ dailyData[i].def /\ dailyData[i].v # 0
    THEN dailyData[i].v * 10 ELSE runningTotal

\* processSeasonData(data, year, isCurrentSeason)
processSeasonData(tz, data, isCurrentSeason, todayKey) ==
    LET todayIndex == IF isCurrentSeason THEN getTodayDayOfSeason(tz, todayKey)
                      ELSE SeasonSlots
        written    == WriteRows(tz, data, 1, [i \in 0..(SeasonSlots - 1) |-> JsNone],
                                0, todayIndex)
        filled     == ForwardFill(written.dailyData, isCurrentSeason, todayIndex)
    IN  [called     |-> TRUE,
         data       |-> filled,
         finalTotal |-> IF isCurrentSeason
                        THEN SlotOr(filled, todayIndex, written.runningTotal)
                        ELSE SlotOr(filled, SeasonSlots - 1, written.runningTotal),
         isCurrent  |-> isCurrentSeason,
         todayIndex |-> IF isCurrentSeason THEN Num(todayIndex) ELSE JsNone]

\* most rows of a season file
MaxSeasonRows == 2

\* the dates of the rows and of the visit: the first two days of a season, the
\* days around a leap day, the last two days of the season and the day after
SeasonDates == { DaysFromCivil(2023, 11, 1), DaysFromCivil(2023, 11, 2),
                 DaysFromCivil(2024, 2, 28), DaysFromCivil(2024, 2, 29),
                 DaysFromCivil(2024, 3, 1),  DaysFromCivil(2024, 4, 29),
                 DaysFromCivil(2024, 4, 30), DaysFromCivil(2024, 5, 1) }

\* snowfall_cm cells of a season file: rain, 1.25 cm, 3.00 cm
SeasonSnowfalls == { Num(RainCm), Num(125), Num(300) }

InitSeason ==
    /\ program = "compare"
    /\ host \in DateHosts
    /\ seasonData = <<>>
    /\ today \in SeasonDates
    /\ seasonRecord = NotCalled
    /\ IdleJob /\ IdleHistoric /\ IdleAcc /\ IdleAxis /\ IdlePage /\ IdleSeasonFiles /\ IdleFetch
    /\ IdleClassifier /\ IdleClock /\ IdleLoads

\* a season file holds one row per day in date order: the next row of the file
ReadSeasonRow ==
    /\ program = "compare"
    /\ ~seasonRecord.called
    /\ Len(seasonData) < MaxSeasonRows
    /\ \E d \in SeasonDates, sn \in SeasonSnowfalls :
           /\ seasonData # <<>> => seasonData[Len(seasonData)].date < d
           /\ seasonData' = Append(seasonData, [date |-> d, snowfall_cm |-> sn])
    /\ UNCHANGED <<program, host, today, seasonRecord,
                   jobVars, historicVars, accVars, axisVars, pageVars,
                   seasonFilesVars, fetchVars, classifierVars, clockVars, loadVars>>

\* loadAllSeasons: processSeasonData on a historic file or on the current table
ProcessSeason ==
    /\ program = "compare"
    /\ ~seasonRecord.called
    /\ \E isCurrentSeason \in BOOLEAN :
           seasonRecord' = processSeasonData(host.tz, seasonData, isCurrentSeason, today)
    /\ UNCHANGED <<program, host, seasonData, today,
                   jobVars, historicVars, accVars, axisVars, pageVars,
                   seasonFilesVars, fetchVars, classifierVars, clockVars, loadVars>>

NextSeason == ReadSeasonRow \/ ProcessSeason

SpecSeason == InitSeason /\ [][NextSeason]_vars

\* every date of two seasons and the two summers after them
AxisFirst == DaysFromCivil(2023, 11, 1)

AxisLast == DaysFromCivil(2025, 10, 31)

InitAxis ==
    /\ program = "dayOfSeason"
    /\ host \in DateHosts
    /\ dateStr \in AxisFirst..AxisLast
    /\ dayOfSeason = JsNone
    /\ IdleJob /\ IdleHistoric /\ IdleAcc /\ IdleSeason /\ IdlePage /\ IdleSeasonFiles /\ IdleFetch
    /\ IdleClassifier /\ IdleClock /\ IdleLoads

\* one call of dateToDayOfSeason
ConvertDate ==
    /\ program = "dayOfSeason"
    /\ ~dayOfSeason.def
    /\ dayOfSeason' = Num(dateToDayOfSeason(host.tz, dateStr))
    /\ UNCHANGED <<program, host, dateStr,
                   jobVars, historicVars, accVars, seasonVars, pageVars,
                   seasonFilesVars, fetchVars, classifierVars, clockVars, loadVars>>

NextAxis == ConvertDate

SpecAxis == InitAxis /\ [][NextAxis]_vars

-----------------------------------------------------------------------------
(* The season axis: what processSeasonData and dateToDayOfSeason return *)

\* the slots that have a row: the slots the rows of the season file land on
RowSlots == {dateToDayOfSeason(host.tz, seasonData[k].date) : k \in DOMAIN seasonData}

\* the value a slot without a row repeats: that of the nearest earlier slot among
\* the slots S that have a row, 0 when there is none
Repeated(data, S, i) ==
    IF {j \in S : 0 <= j /\ j < i} = {} THEN 0
    ELSE data[Max({j \in S : 0 <= j /\ j < i})].v

\* C8: for a completed season the series has 182 slots, none unset, and a slot
\* whose day has no row holds the value of the nearest earlier slot that has a
\* row, or 0 when no earlier slot has one
C8_CompletedSeasonForwardFilled ==
    (seasonRecord.called /\ ~seasonRecord.isCurrent) =>
        /\ DOMAIN seasonRecord.data = 0..181
        /\ \A i \in 0..181 : seasonRecord.data[i].def
        /\ \A S \in {RowSlots} : \A i \in (0..181) \ S :
               seasonRecord.data[i].v = Repeated(seasonRecord.data, S, i)

\* a completed season with a gap between two days that have rows, the gap
\* repeating a cumulative value that is not 0
C8_Witness ==
    /\ seasonRecord.called /\ ~seasonRecord.isCurrent
    /\ \E S \in {RowSlots} : \E i, k \in S : \E j \in (0..181) \ S :
           /\ 0 <= i /\ i < j /\ j < k
           /\ seasonRecord.data[j].v > 0
           /\ seasonRecord.data[j].v = seasonRecord.data[i].v

\* C9: for the season in progress every slot after todayIndex is left unset
C9_CurrentSeasonStopsAtToday ==
    (seasonRecord.called /\ seasonRecord.isCurrent) =>
        \A i \in 0..181 : i > seasonRecord.todayIndex.v => ~seasonRecord.data[i].def

\* the season in progress, visited on a day of the season that has a row before
\* it and a row after it, the slots up to today filled
C9_Witness ==
    /\ seasonRecord.called /\ seasonRecord.isCurrent
    /\ seasonRecord.todayIndex.v \in 1..180
    /\ \E S \in {RowSlots} : \E i, k \in S :
           /\ 0 <= i /\ i < seasonRecord.todayIndex.v /\ seasonRecord.todayIndex.v < k
           /\ seasonRecord.data[seasonRecord.todayIndex.v].v > 0

\* the calendar month and day of the argument of dateToDayOfSeason
ArgDate == CivilFromDays(dateStr)

\* the argument lies in November..April
ArgInSeason == ArgDate.month >= 11 \/ ArgDate.month <= 4

\* C10: Nov 1 maps to 0, Apr 30 maps to 181, every date from Nov 1 through
\* Apr 30 maps into 0..181 and every date from May 1 through Oct 31 maps to -1
C10_DayOfSeasonAxis ==
    dayOfSeason.def =>
        /\ (ArgDate.month = 11 /\ ArgDate.day = 1) => dayOfSeason.v = 0
        /\ (ArgDate.month = 4 /\ ArgDate.day = 30) => dayOfSeason.v = 181
        /\ ArgInSeason => dayOfSeason.v \in 0..181
        /\ ~ArgInSeason => dayOfSeason.v = -1

-----------------------------------------------------------------------------
(* calculateSnowfall (snowfall.js) *)

\* mutant: the gate is on the air temperature
AirTemperature(temp, hum) == temp

\* wetBulb = temp - ((100 - hum) / 10), in tenths of a degree
WetBulb(temp, hum) == temp - (100 - hum)

\* the base snow-to-liquid ratio in thousandths: 8 + (wetBulb * -1) from -2 C
\* up, 10 + ((-2 - wetBulb) * 1.15) below
BaseSlr(wetBulb) ==
    IF wetBulb >= -20 THEN 8000 - 100 * wetBulb
    ELSE 10000 + 115 * (-20 - wetBulb)

\* mutant: the ratio is not held within 5 and 30
Uncapped(slr) == slr

\* Math.min(Math.max(slr, 5), 30)
CapSlr(slr) == IF slr < 5000 THEN 5000 ELSE IF slr > 30000 THEN 30000 ELSE slr

\* Math.exp(-0.08 * (wind - 2.5)) in millionths, at the wind speeds above
\* 2.5 m/s that readings carry here: 5.0, 10.0 and 40.0 m/s
ExpWind(wind) == CASE wind = 50 -> 818731 [] wind = 100 -> 548812 [] wind = 400 -> 49787

\* wind <= 2.5 ? 1.0 : Math.exp(...)
WindFactor(wind) == IF wind <= 25 THEN 1000000 ELSE ExpWind(wind)

\* (mm * slr * windFactor) / 10 in millionths of a hundredth of a cm
Product(mm, slr, windFactor) ==
    ((mm * slr) \div 1000) * windFactor + (((mm * slr) % 1000) * windFactor) \div 1000

\* the readings (temp, mm, hum) of this development for which mm * slr / 10
\* is halfway between two hundredths in decimal while the double that the
\* code computes for it lies below the halfway point
HalfwayBelow ==
    { <<-60, 10, 90>>, <<-50, 10, 100>>, <<-20, 10, 50>>, <<-20, 10, 90>>,
      <<20, 10, 50>> }

\* mutant: the precipitation is not looked at before the ratio is applied
Unguarded(temp, mm, wind, hum) ==
    IF WetBulb(temp, hum) > 10 THEN 0
    ELSE (2 * Product(mm, CapSlr(BaseSlr(WetBulb(temp, hum))), WindFactor(wind)) + 1000000)
             \div 2000000

\* calculateSnowfall(temp, mm, wind, hum): a Number, the depth in hundredths of
\* a cm; 0 without precipitation and 0 when the wet bulb is above 1.0 C;
\* toFixed(2) rounds the double to the nearest hundredth
calculateSnowfall(temp, mm, wind, hum) ==
    IF mm <= 0 THEN 0
    ELSE IF WetBulb(temp, hum) > 10 THEN 0
    ELSE IF /\ wind <= 25
            /\ Product(mm, CapSlr(BaseSlr(WetBulb(temp, hum))), 1000000) % 1000000 = 500000
            /\ <<temp, mm, hum>> \in HalfwayBelow
         THEN Product(mm, CapSlr(BaseSlr(WetBulb(temp, hum))), 1000000) \div 1000000
         ELSE RoundDiv(Product(mm, CapSlr(BaseSlr(WetBulb(temp, hum))), WindFactor(wind)),
                       1000000)

\* a call of calculateSnowfall whose mm or hum may be undefined: !mm returns 0,
\* hum defaults to 90
CallSnowfall(temp, mm, wind, hum) ==
    IF ~mm.def THEN 0
    ELSE calculateSnowfall(temp, mm.v, wind, IF hum.def THEN hum.v ELSE 90)

\* snowCalc.amount where snowCalc is what calculateSnowfall returned: a Number
\* has no property amount, the read gives undefined
AmountOf(snowCalc) == JsNone

\* snowCalc.slr, likewise undefined
SlrOf(snowCalc) == JsNone

\* the text '-1' of a rain day in the slr column, in tenths
RainSlr == -10

-----------------------------------------------------------------------------
(* The scheduled job (fetch_data.js): the stored hourly table and the daily  *)
(* table recomputed from it                                                  *)

\* getHourInCET: the hour Intl prints for Europe/Stockholm under hour12: false
getHourInCET(h24, t) ==
    IF h24 /\ ((t + StockholmOffset(t)) % 1440) \div 60 = 0 THEN 24
    ELSE ((t + StockholmOffset(t)) % 1440) \div 60

\* getDateKeyInCET: the en-CA date Intl prints for Europe/Stockholm
getDateKeyInCET(t) == (t + StockholmOffset(t)) \div 1440

\* the dayKey of a line: before 8 in the morning the date of the instant one
\* local day earlier, otherwise the date of the instant
DayKey(h, t) ==
    IF getHourInCET(h.h24, t) < 8
    THEN getDateKeyInCET(SetDatePlus(h.tz, t, -1))
    ELSE getDateKeyInCET(t)

\* a line takes part unless isNaN(temperature) || isNaN(precipitation)
Counted(line) == line.temperature.def /\ line.precipitation.def

\* dailyTotals[dayKey] as created
NewDay == [total |-> 0, weightedSlr |-> 0, totalAmount |-> 0, hasRain |-> FALSE,
           temperatures |-> <<>>, humidities |-> <<>>]

\* the branch on snowCalc: rain when slr === -1 or amount < 0, snow added when
\* amount > 0
AddSnow(day, amount, slr) ==
    IF JsIs(slr, RainSlr) \/ JsLt(amount, 0)
    THEN [day EXCEPT !.hasRain = TRUE]
    ELSE IF JsGt(amount, 0)
         THEN [day EXCEPT !.total = @ + amount.v,
                          !.weightedSlr = @ + slr.v * amount.v,
                          !.totalAmount = @ + amount.v]
         ELSE day

\* the snowCalc of a line: wind defaults to 0 and humidity to 90
LineSnowCalc(line) ==
    calculateSnowfall(line.temperature.v, line.precipitation.v,
                      JsOr(line.wind_speed, 0), JsOr(line.humidity, 90))

\* one turn of the loop over the lines, on the group of the line
AddLine(day, line) ==
    AddSnow([day EXCEPT !.temperatures = Append(@, line.temperature.v),
                        !.humidities = IF JsOr(line.humidity, 90) > 0
                                       THEN Append(@, JsOr(line.humidity, 90))
                                       ELSE @],
            AmountOf(LineSnowCalc(line)), SlrOf(LineSnowCalc(line)))

\* dailyTotals[dayKey] after the lines from line i on
RECURSIVE DayTotals(_, _, _, _, _)
DayTotals(h, lines, dayKey, i, day) ==
    IF i > Len(lines) THEN day
    ELSE IF Counted(lines[i]) /\ DayKey(h, lines[i].timestamp) = dayKey
         THEN DayTotals(h, lines, dayKey, i + 1, AddLine(day, lines[i]))
         ELSE DayTotals(h, lines, dayKey, i + 1, day)

\* Object.keys(dailyTotals)
DayKeys(h, lines) ==
    {DayKey(h, lines[i].timestamp) : i \in {j \in DOMAIN lines : Counted(lines[j])}}

\* .sort() of date keys
RECURSIVE SortedSeq(_)
SortedSeq(S) == IF S = {} THEN <<>> ELSE <<Min(S)>> \o SortedSeq(S \ {Min(S)})

\* mutant: the slr cell always carries the rain text
AvgSlrSentinel(day) == RainSlr

\* avgSlr: (weightedSlr / totalAmount).toFixed(1), '0' without snow
AvgSlr(day) ==
    IF day.totalAmount > 0 THEN RoundDiv(day.weightedSlr, day.totalAmount) ELSE 0

\* Math.max(...temperatures).toFixed(1), '' when there is none
MaxCell(values) == IF values # <<>> THEN Num(Max(Range(values))) ELSE JsNone

MinCell(values) == IF values # <<>> THEN Num(Min(Range(values))) ELSE JsNone

\* (sum / length).toFixed(1) in tenths of a percent
AvgCell(values) == RoundDiv(10 * SumSeq(values), Len(values))

\* the row of a day
DailyRow(date, day) ==
    [date         |-> date,
     snowfall_cm  |-> IF day.hasRain THEN Num(RainCm) ELSE Num(day.total),
     slr          |-> IF day.hasRain THEN Num(RainSlr) ELSE Num(AvgSlr(day)),
     temp_max     |-> MaxCell(day.temperatures),
     temp_min     |-> MinCell(day.temperatures),
     humidity_avg |-> IF day.humidities # <<>> THEN Num(AvgCell(day.humidities))
                      ELSE JsNone]

\* Object.keys(dailyTotals).sort().map(date => ...): one row per key
RowsOfKeys(h, lines, keys) ==
    [k \in DOMAIN keys |-> DailyRow(keys[k], DayTotals(h, lines, keys[k], 1, NewDay))]

DailyRows(h, lines) == RowsOfKeys(h, lines, SortedSeq(DayKeys(h, lines)))

\* cutoffDate: '2025-11-01'
JobCutoff == DaysFromCivil(2025, 11, 1)

\* accumulatedRows: the rows with their running totals, days before the cutoff dropped
DailyTable(h, lines) == addAccumulatedSnowfall(h.tz, DailyRows(h, lines), Options(Num(JobCutoff)))

\* mutant: the daily table is appended to the file like the hourly lines are
AppendFile(previous, content) == previous \o content

\* fs.writeFileSync(file, content): the content replaces what the file held
WriteFile(previous, content) == content

\* most lines of the stored hourly table
MaxReadings == 2

\* most recomputes of a run of the job
MaxRuns == 2

\* the instants of readings: on 2025-11-05 the local times 00:00, 07:00, 08:00,
\* 08:01 and 09:00 (UTC+1), noon of 2025-10-31, a day before the cutoff, and on
\* 2026-05-01 the local times 07:30, in the ski-day of April 30, and 12:00
Instants == { Instant(2025, 11, 4, 23, 0), Instant(2025, 11, 5, 6, 0),
              Instant(2025, 11, 5, 7, 0),  Instant(2025, 11, 5, 7, 1),
              Instant(2025, 11, 5, 8, 0),  Instant(2025, 10, 31, 11, 0),
              Instant(2026, 5, 1, 5, 30),  Instant(2026, 5, 1, 10, 0) }

\* what an hour measured: snow (-5.0 C, 1.0 mm, 2.0 m/s, 90 %), rain (5.0 C,
\* 2.0 mm), a dry hour without wind and humidity values, and an hour with a
\* temperature only
Weathers ==
    { [temperature |-> Num(-50), precipitation |-> Num(10),
       wind_speed |-> Num(20), humidity |-> Num(90)],
      [temperature |-> Num(50), precipitation |-> Num(20),
       wind_speed |-> Num(20), humidity |-> Num(90)],
      [temperature |-> Num(-50), precipitation |-> Num(0),
       wind_speed |-> JsNone, humidity |-> JsNone],
      [temperature |-> Num(-50), precipitation |-> JsNone,
       wind_speed |-> JsNone, humidity |-> JsNone] }

\* dataByTime entries: the values the API gave for one timestamp
ApiHours == { [timestamp |-> t] @@ w : t \in Instants, w \in Weathers }

\* Object.entries(dataByTime): at most n entries, one per timestamp
ApiResponses(n) ==
    { b \in UNION { [1..k -> ApiHours] : k \in 0..n } :
        \A i, j \in DOMAIN b : i # j => b[i].timestamp # b[j].timestamp }

\* getExistingTimestamps
ExistingTimestamps(file) == {file[i].timestamp : i \in DOMAIN file}

\* mutant: every complete entry is new, stored or not
fetchWithoutExisting(file, response) ==
    LET IsComplete(values) == values.temperature.def /\ values.precipitation.def
    IN  SelectSeq(response, IsComplete)

\* fetchHourlyData: the entries with a timestamp not yet stored that have a
\* temperature and a precipitation
fetchHourlyData(file, response) ==
    LET IsNew(values) ==
            /\ values.timestamp \notin ExistingTimestamps(file)
            /\ values.temperature.def /\ values.precipitation.def
    IN  SelectSeq(response, IsNew)

\* appendHourlyData
appendHourlyData(file, new) == file \o new

InitJob ==
    /\ program = "job"
    /\ host \in Hosts
    /\ weatherFile = <<>> /\ aggregatedFile = <<>> /\ runs = 0 /\ outcome = ""
    /\ apiResponse = <<>>
    /\ IdleHistoric /\ IdleAcc /\ IdleSeason /\ IdleAxis /\ IdlePage /\ IdleSeasonFiles /\ IdleFetch
    /\ IdleClassifier /\ IdleClock /\ IdleLoads

\* main(): fetch, append what is new, recompute the daily table, and log
\* 'Data fetch completed successfully!'; process.exit(1) is for an exception,
\* which none of these steps throws on the files and answers here
Main ==
    /\ program = "job"
    /\ runs < MaxRuns
    /\ \E response \in ApiResponses(MaxReadings - Len(weatherFile)) :
           /\ apiResponse' = response
           /\ weatherFile' = appendHourlyData(weatherFile, fetchHourlyData(weatherFile, response))
           /\ aggregatedFile' = WriteFile(aggregatedFile, DailyTable(host, weatherFile'))
    /\ runs' = runs + 1
    /\ outcome' = "completed successfully"
    /\ UNCHANGED <<program, host, historicVars, accVars, seasonVars, axisVars, pageVars,
                   seasonFilesVars, fetchVars, classifierVars, clockVars, loadVars>>

\* calculateDailySnowfall() on its own: the recompute over the stored table
CalculateDailySnowfall ==
    /\ program = "job"
    /\ runs < MaxRuns
    /\ aggregatedFile' = WriteFile(aggregatedFile, DailyTable(host, weatherFile))
    /\ runs' = runs + 1
    /\ outcome' = "returned"
    /\ UNCHANGED <<program, host, weatherFile, apiResponse,
                   historicVars, accVars, seasonVars, axisVars, pageVars,
                   seasonFilesVars, fetchVars, classifierVars, clockVars, loadVars>>

-----------------------------------------------------------------------------
(* The historic aggregator (aggregate_historic.js) *)

\* date.getUTCMonth(), 0-indexed
UtcMonth(t) == CivilFromDays(UtcDay(t)).month - 1

\* getHourInCET of aggregate_historic.js: summer time is taken to last from
\* March to October by the UTC month alone
getHourInCETHistoric(t) ==
    IF UtcMonth(t) >= 2 /\ UtcMonth(t) <= 9
    THEN (UtcHour(t) + 2) % 24
    ELSE (UtcHour(t) + 1) % 24

\* getDateKeyInCET of aggregate_historic.js: the UTC date, or the day after it
\* when the CET hour is before the UTC hour
getDateKeyInCETHistoric(t) ==
    IF \/ getHourInCETHistoric(t) < UtcHour(t)
       \/ (getHourInCETHistoric(t) = 0 /\ UtcHour(t) > 0)
    THEN UtcDay(SetUTCDatePlus(t, 1))
    ELSE UtcDay(t)

\* the dayKey of an hour
DayKeyHistoric(t) ==
    IF getHourInCETHistoric(t) < 8
    THEN getDateKeyInCETHistoric(SetUTCDatePlus(t, -1))
    ELSE getDateKeyInCETHistoric(t)

\* String(year).slice(-2) of both years, as the number the four digits spell
SeasonKey(year1, year2) == (year1 % 100) * 100 + (year2 % 100)

\* getWinterSeason(date) on the local fields f of the date: null from May to October
getWinterSeason(f) ==
    IF f.month + 1 >= 11 THEN Num(SeasonKey(f.year, f.year + 1))
    ELSE IF f.month + 1 <= 4 THEN Num(SeasonKey(f.year - 1, f.year))
    ELSE JsNone

\* getWinterSeason(new Date(dayKey))
SeasonOfKey(tz, dayKey) == getWinterSeason(LocalFields(tz, ParseDate(dayKey)))

\* dailyBySeason[season][dayKey] as created
NewHistoricDay == [temperatures |-> <<>>, humidities |-> <<>>, precipitations |-> <<>>,
                   windSpeeds |-> <<>>, snowfallData |-> <<>>]

\* arr.push(value) unless value is undefined
PushDefined(arr, value) == IF value.def THEN Append(arr, value.v) ELSE arr

\* one turn of the loop over the hours, on the day of the hour
AddHour(day, hour) ==
    [temperatures   |-> PushDefined(day.temperatures, hour.temperature),
     humidities     |-> PushDefined(day.humidities, hour.humidity),
     precipitations |-> PushDefined(day.precipitations, hour.precipitation),
     windSpeeds     |-> PushDefined(day.windSpeeds, hour.windSpeed),
     snowfallData   |-> IF hour.temperature.def /\ hour.precipitation.def
                        THEN Append(day.snowfallData,
                                    calculateSnowfall(hour.temperature.v, hour.precipitation.v,
                                                      JsOr(hour.windSpeed, 0),
                                                      JsOr(hour.humidity, 90)))
                        ELSE day.snowfallData]

\* dailyBySeason[season][dayKey] after the hours from hour i on
RECURSIVE HistoricDay(_, _, _, _)
HistoricDay(hours, dayKey, i, day) ==
    IF i > Len(hours) THEN day
    ELSE IF DayKeyHistoric(hours[i].timestamp) = dayKey
         THEN HistoricDay(hours, dayKey, i + 1, AddHour(day, hours[i]))
         ELSE HistoricDay(hours, dayKey, i + 1, day)

\* the loop over day.snowfallData, from entry i on
RECURSIVE SnowTotals(_, _, _)
SnowTotals(snowfallData, i, totals) ==
    IF i > Len(snowfallData) THEN totals
    ELSE SnowTotals(snowfallData, i + 1,
                    AddSnow(totals, AmountOf(snowfallData[i]), SlrOf(snowfallData[i])))

\* hasRain, totalSnowfall, weightedSlr, totalAmount as declared
NewTotals == [hasRain |-> FALSE, total |-> 0, weightedSlr |-> 0, totalAmount |-> 0]

\* the record pushed for a day, given the totals of its snowfallData
HistoricRow(season, date, day, totals) ==
    [season       |-> season,
     date         |-> date,
     snowfall_cm  |-> IF totals.hasRain THEN Num(RainCm) ELSE Num(totals.total),
     slr          |-> IF totals.hasRain THEN Num(RainSlr) ELSE Num(AvgSlr(totals)),
     temp_max     |-> MaxCell(day.temperatures),
     temp_min     |-> MinCell(day.temperatures),
     humidity_avg |-> IF day.humidities # <<>> THEN Num(AvgCell(day.humidities))
                      ELSE Num(900)]

\* the dayKeys that have a season
HistoricDayKeys(tz, hours) ==
    {d \in {DayKeyHistoric(hours[i].timestamp) : i \in DOMAIN hours} : SeasonOfKey(tz, d).def}

\* the records of the days keys[k], each built from its hours
HistoricRows(tz, hours, keys) ==
    [k \in DOMAIN keys |->
        HistoricRow(SeasonOfKey(tz, keys[k]).v, keys[k],
                    HistoricDay(hours, keys[k], 1, NewHistoricDay),
                    SnowTotals(HistoricDay(hours, keys[k], 1, NewHistoricDay).snowfallData,
                               1, NewTotals))]

\* calculateDailyAggregates(hourlyData): the records of every season, by date
calculateDailyAggregates(tz, hours) ==
    HistoricRows(tz, hours, SortedSeq(HistoricDayKeys(tz, hours)))

\* combined hourly records: one per timestamp, fields named as combineHourlyData names them
HistoricHours ==
    { [timestamp |-> t, temperature |-> w.temperature, precipitation |-> w.precipitation,
       windSpeed |-> w.wind_speed, humidity |-> w.humidity] :
      t \in Instants, w \in Weathers }

InitHistoric ==
    /\ program = "historic"
    /\ host \in DateHosts
    /\ hourlyData = <<>> /\ aggregated = NotCalled
    /\ IdleJob /\ IdleAcc /\ IdleSeason /\ IdleAxis /\ IdlePage /\ IdleSeasonFiles /\ IdleFetch
    /\ IdleClassifier /\ IdleClock /\ IdleLoads

\* combineHourlyData yields the next record, keyed by its hour
CombineHour ==
    /\ program = "historic"
    /\ ~aggregated.called
    /\ Len(hourlyData) < MaxReadings
    /\ \E hour \in HistoricHours :
           /\ hourlyData # <<>> => hourlyData[Len(hourlyData)].timestamp < hour.timestamp
           /\ hourlyData' = Append(hourlyData, hour)
    /\ UNCHANGED <<program, host, aggregated, jobVars, accVars, seasonVars, axisVars, pageVars,
                   seasonFilesVars, fetchVars, classifierVars, clockVars, loadVars>>

\* aggregated = calculateDailyAggregates(hourlyData)
AggregateHistoric ==
    /\ program = "historic"
    /\ ~aggregated.called
    /\ aggregated' = [called |-> TRUE, out |-> calculateDailyAggregates(host.tz, hourlyData)]
    /\ UNCHANGED <<program, host, hourlyData, jobVars, accVars, seasonVars, axisVars, pageVars,
                   seasonFilesVars, fetchVars, classifierVars, clockVars, loadVars>>

-----------------------------------------------------------------------------
(* The front page (app.js): the last 24 hours and today's value *)

\* getHourInCET of app.js: the Europe/Stockholm hour under hourCycle h23
getHourInCETPage(t) == ((t + StockholmOffset(t)) % 1440) \div 60

\* d.setHours(d.getHours() + k): local wall-clock stepping in the runtime's zone
SetHoursPlus(tz, t, k) == LocalToInstant(tz, t + ZoneOffset(tz, t) + k * 60)

\* d.setMinutes(0, 0, 0) in a zone with a whole-hour offset
SetMinutesZero(t) == t - (t % 60)

\* endTime = latestHourWithData || new Date(), minutes cleared: the latest
\* hour that has a temperature
EndTime(dataByTime, now) ==
    IF \E e \in dataByTime : e.temperature.def
    THEN Max({e.timestamp : e \in {x \in dataByTime : x.temperature.def}})
    ELSE SetMinutesZero(now)

\* the entry pushed for hourTime when dataByTime has a temperature for it
MeasuredEntry(hourTime, data) ==
    [timestamp     |-> hourTime,
     temperature   |-> data.temperature,
     precipitation |-> IF data.precipitation.def THEN data.precipitation.v ELSE 0,
     snowfall      |-> AmountOf(calculateSnowfall(
                           data.temperature.v,
                           IF data.precipitation.def THEN data.precipitation.v ELSE 0,
                           JsOr(data.wind_speed, 0), JsOr(data.humidity, 90))),
     slr           |-> SlrOf(calculateSnowfall(
                           data.temperature.v,
                           IF data.precipitation.def THEN data.precipitation.v ELSE 0,
                           JsOr(data.wind_speed, 0), JsOr(data.humidity, 90)))]

\* the entry pushed for hourTime otherwise
EmptyEntry(hourTime) ==
    [timestamp |-> hourTime, temperature |-> JsNone, precipitation |-> 0,
     snowfall |-> Num(0), slr |-> Num(0)]

\* one turn of the loop over the 24 hours
HourEntry(dataByTime, hourTime) ==
    IF \E e \in dataByTime : e.timestamp = hourTime /\ e.temperature.def
    THEN MeasuredEntry(hourTime, CHOOSE e \in dataByTime : e.timestamp = hourTime)
    ELSE EmptyEntry(hourTime)

\* the 24 hours from startTime on
HoursFrom(tz, dataByTime, startTime) ==
    [i \in 1..24 |-> HourEntry(dataByTime, SetHoursPlus(tz, startTime, i - 1))]

\* fetchLast24Hours(): the 24 hours that end at endTime
fetchLast24Hours(tz, dataByTime, now) ==
    HoursFrom(tz, dataByTime, SetHoursPlus(tz, EndTime(dataByTime, now), -23))

\* dayStartDate: up to 08:00 the data still belong to yesterday's day
DayStartDate(tz, effectiveNow) ==
    IF getHourInCETPage(effectiveNow) <= 8 THEN SetDatePlus(tz, effectiveNow, -1)
    ELSE effectiveNow

\* the filter of relevantHours for the day that started on dayStartCET
IsRelevant(hour, dayStartCET, nextDayCET) ==
    \/ getDateKeyInCET(hour.timestamp) = dayStartCET /\ getHourInCETPage(hour.timestamp) > 8
    \/ getDateKeyInCET(hour.timestamp) = nextDayCET /\ getHourInCETPage(hour.timestamp) <= 8

\* relevantHours
RelevantHours(tz, hours, dayStartDate) ==
    LET Keep(hour) == IsRelevant(hour, getDateKeyInCET(dayStartDate),
                                 getDateKeyInCET(SetDatePlus(tz, dayStartDate, 1)))
    IN  SelectSeq(hours, Keep)

\* return null
Null == [null |-> TRUE, snowfall |-> 0, slr |-> 0]

\* totalSnowfall: the sum of the amounts (hour.snowfall || 0) that are >= 0
TotalSnowfall(hours) ==
    SumSeq([i \in DOMAIN hours |->
               IF JsOr(hours[i].snowfall, 0) >= 0 THEN JsOr(hours[i].snowfall, 0) ELSE 0])

\* hoursWithSnow
HoursWithSnow(hours) ==
    LET Snowed(hour) == JsGt(hour.snowfall, 0)
    IN  SelectSeq(hours, Snowed)

\* avgSlr over hoursWithSnow, cut to a tenth
AvgSlrOfHours(snowHours) ==
    SumSeq([i \in DOMAIN snowHours |-> JsOr(snowHours[i].slr, 0)]) \div Len(snowHours)

\* what calculateTodayFromHourly returns for its relevantHours
TodayOf(relevantHours) ==
    IF relevantHours = <<>> THEN Null
    ELSE IF \E i \in DOMAIN relevantHours : JsLt(relevantHours[i].snowfall, 0)
         THEN [null |-> FALSE, snowfall |-> RainCm, slr |-> RainSlr]
         ELSE IF HoursWithSnow(relevantHours) = <<>>
              THEN [null |-> FALSE, snowfall |-> TotalSnowfall(relevantHours), slr |-> 0]
              ELSE [null |-> FALSE, snowfall |-> TotalSnowfall(relevantHours),
                    slr |-> AvgSlrOfHours(HoursWithSnow(relevantHours))]

\* latestDataPoint
LatestDataPoint(hours) == Max({hours[i].timestamp : i \in DOMAIN hours})

\* calculateTodayFromHourly(hourlyData)
calculateTodayFromHourly(tz, hours) ==
    IF hours = <<>> THEN Null
    ELSE TodayOf(RelevantHours(tz, hours, DayStartDate(tz, LatestDataPoint(hours))))

\* the hours the API answers with, keyed by the hour
PageInstants == {SetMinutesZero(t) : t \in Instants}

\* dataByTime entries: what the parameters gave for an hour, a temperature or not
PageHours ==
    { [timestamp |-> t] @@ w : t \in PageInstants, w \in Weathers }
    \cup { [timestamp |-> t, temperature |-> JsNone, precipitation |-> Num(20),
            wind_speed |-> JsNone, humidity |-> Num(90)] : t \in PageInstants }

\* dataByTime: at most n hours
PageResponses(n) ==
    { d \in UNION { { {f[i] : i \in 1..k} : f \in [1..k -> PageHours] } : k \in 0..n } :
        \A e1, e2 \in d : e1.timestamp = e2.timestamp => e1 = e2 }

\* new Date() at the visit: 08:01 and 09:00 Stockholm time of one morning, a
\* day of the week before, and the morning after summer time ended
PageClocks ==
    { Instant(2025, 11, 5, 7, 1), Instant(2025, 11, 5, 8, 0), Instant(2025, 10, 31, 11, 0),
      Instant(2025, 10, 26, 8, 30) }

\* fetchDailySnowfall(): the rows of the daily table the page loaded
PageDailyTables ==
    { <<[date |-> DaysFromCivil(2025, 11, 4), snowfall |-> 150, slr |-> 120]>>,
      <<[date |-> DaysFromCivil(2025, 11, 4), snowfall |-> 150, slr |-> 120],
        [date |-> DaysFromCivil(2025, 11, 5), snowfall |-> RainCm, slr |-> RainSlr]>> }

\* currentMetDayCET: the day of the latest entry, yesterday up to 08:00
CurrentMetDayCET(tz, hours) ==
    getDateKeyInCET(DayStartDate(tz, LatestDataPoint(hours)))

\* todayIndex: data.findIndex over the rows' dates, 0 for -1
TodayIndex(data, day) ==
    IF \E i \in DOMAIN data : getDateKeyInCET(data[i].date * 1440) = day
    THEN Min({i \in DOMAIN data : getDateKeyInCET(data[i].date * 1440) = day})
    ELSE 0

\* the three arrays with today's value replacing the row at todayIndex, or
\* pushed as a new entry
Spliced(data, day, value) ==
    IF TodayIndex(data, day) # 0
    THEN [fullDates |-> [i \in DOMAIN data |-> data[i].date],
          snowfall  |-> [i \in DOMAIN data |->
                            IF i = TodayIndex(data, day) THEN value.snowfall
                            ELSE data[i].snowfall],
          slrValues |-> [i \in DOMAIN data |->
                            IF i = TodayIndex(data, day) THEN value.slr ELSE data[i].slr]]
    ELSE [fullDates |-> Append([i \in DOMAIN data |-> data[i].date], day),
          snowfall  |-> Append([i \in DOMAIN data |-> data[i].snowfall], value.snowfall),
          slrValues |-> Append([i \in DOMAIN data |-> data[i].slr], value.slr)]

\* the arrays when nothing is spliced in
Unspliced(data) ==
    [fullDates |-> [i \in DOMAIN data |-> data[i].date],
     snowfall  |-> [i \in DOMAIN data |-> data[i].snowfall],
     slrValues |-> [i \in DOMAIN data |-> data[i].slr]]

\* cumulative: the running total of the positive values, to one decimal
Cumulative(snowfall) ==
    [i \in DOMAIN snowfall |->
        RoundDiv(SumSeq([j \in 1..i |-> IF snowfall[j] > 0 THEN snowfall[j] ELSE 0]), 10)]

\* rainDays and cumulative, built from the snowfall array
SeriesOf(arrays) ==
    [fullDates  |-> arrays.fullDates,
     snowfall   |-> arrays.snowfall,
     slrValues  |-> arrays.slrValues,
     rainDays   |-> {i \in DOMAIN arrays.snowfall : arrays.snowfall[i] < 0},
     cumulative |-> Cumulative(arrays.snowfall)]

\* if (todayValue) { ... splice ... } else warn
SpliceToday(tz, data, hours, value) ==
    IF value.null THEN Unspliced(data)
    ELSE Spliced(data, CurrentMetDayCET(tz, hours), value)

\* prepareDailySeries(data, hourlyData) without the month labels
prepareDailySeries(tz, data, hours) ==
    IF hours = <<>> THEN SeriesOf(Unspliced(data))
    ELSE SeriesOf(SpliceToday(tz, data, hours, calculateTodayFromHourly(tz, hours)))

InitPage ==
    /\ program = "page"
    /\ host \in DateHosts
    /\ IdlePage
    /\ IdleJob /\ IdleHistoric /\ IdleAcc /\ IdleSeason /\ IdleAxis /\ IdleSeasonFiles /\ IdleFetch
    /\ IdleClassifier /\ IdleClock /\ IdleLoads

\* hourlyData = await fetchLast24Hours()
FetchLast24Hours ==
    /\ program = "page"
    /\ last24 = <<>>
    /\ \E dataByTime \in PageResponses(MaxReadings), now \in PageClocks :
           /\ fetched' = dataByTime
           /\ clock' = now
           /\ last24' = fetchLast24Hours(host.tz, dataByTime, now)
    /\ UNCHANGED <<program, host, todayValue, dailySeries,
                   jobVars, historicVars, accVars, seasonVars, axisVars,
                   seasonFilesVars, fetchVars, classifierVars, clockVars, loadVars>>

\* todayValue = calculateTodayFromHourly(hourlyData)
CalculateToday ==
    /\ program = "page"
    /\ last24 # <<>>
    /\ ~todayValue.called
    /\ todayValue' = [called |-> TRUE, out |-> calculateTodayFromHourly(host.tz, last24)]
    /\ UNCHANGED <<program, host, last24, fetched, clock, dailySeries,
                   jobVars, historicVars, accVars, seasonVars, axisVars,
                   seasonFilesVars, fetchVars, classifierVars, clockVars, loadVars>>

\* dailySeries = prepareDailySeries(dailyData, hourlyData)
PrepareDailySeries ==
    /\ program = "page"
    /\ last24 # <<>>
    /\ ~dailySeries.called
    /\ \E dailyData \in PageDailyTables :
           dailySeries' = [called |-> TRUE, data |-> dailyData,
                           out |-> prepareDailySeries(host.tz, dailyData, last24)]
    /\ UNCHANGED <<program, host, last24, todayValue, fetched, clock,
                   jobVars, historicVars, accVars, seasonVars, axisVars,
                   seasonFilesVars, fetchVars, classifierVars, clockVars, loadVars>>

-----------------------------------------------------------------------------
(* The three programs that turn hourly readings into daily values *)

InitAgg == InitJob \/ InitHistoric \/ InitPage

NextAgg ==
    \/ Main
    \/ CalculateDailySnowfall
    \/ CombineHour
    \/ AggregateHistoric
    \/ FetchLast24Hours
    \/ CalculateToday
    \/ PrepareDailySeries

SpecAgg == InitAgg /\ [][NextAgg]_vars

-----------------------------------------------------------------------------
(* What the daily aggregation emits *)

\* the station's wall clock (Europe/Stockholm) at an instant: minutes since
\* local midnight, and the local calendar date
StationMinute(t) == (t + StockholmOffset(t)) % 1440

StationDate(t) == (t + StockholmOffset(t)) \div 1440

\* a rain hour: precipitation > 0 and a wet bulb above 1.0 C
IsRainHour(temperature, precipitation, humidity) ==
    precipitation > 0 /\ WetBulb(temperature, humidity) > 10

\* the stored line is a rain hour
RainLine(line) ==
    /\ Counted(line)
    /\ IsRainHour(line.temperature.v, line.precipitation.v, JsOr(line.humidity, 90))

\* the combined hourly record is a rain hour
RainRecord(hour) ==
    /\ hour.temperature.def /\ hour.precipitation.def
    /\ IsRainHour(hour.temperature.v, hour.precipitation.v, JsOr(hour.humidity, 90))

\* the record carries the rain sentinel in both columns
IsSentinel(record) == record.snowfall_cm = Num(RainCm) /\ record.slr = Num(RainSlr)

\* C1: in both daily aggregations the record of a ski-day group that contains a
\* rain hour has snowfall_cm = -1 and slr = -1, whatever else the group contains
C1_RainDayIsSentinel ==
    /\ \A k \in DOMAIN aggregatedFile :
           (\E i \in DOMAIN weatherFile :
                /\ RainLine(weatherFile[i])
                /\ DayKey(host, weatherFile[i].timestamp) = aggregatedFile[k].date)
           => IsSentinel(aggregatedFile[k])
    /\ aggregated.called =>
           \A k \in DOMAIN aggregated.out :
               (\E i \in DOMAIN hourlyData :
                    /\ RainRecord(hourlyData[i])
                    /\ DayKeyHistoric(hourlyData[i].timestamp) = aggregated.out[k].date)
               => IsSentinel(aggregated.out[k])

\* the ski-day of a reading taken at 08:00 or later, station time: the previous
\* local date at 08:00 sharp, the local date of the reading after 08:00
SkiDayFromEight(t) == IF StationMinute(t) = 480 THEN StationDate(t) - 1 ELSE StationDate(t)

\* C2: the daily aggregation assigns a reading taken at exactly 08:00 station
\* time to the ski-day of the previous local date, and a reading taken later
\* that date (08:01 to 23:59) to the ski-day of its own local date
C2_EightBelongsToPreviousDay ==
    /\ (program = "job" /\ runs > 0) =>
           \A i \in DOMAIN weatherFile :
               (Counted(weatherFile[i]) /\ StationMinute(weatherFile[i].timestamp) >= 480)
               => DayKey(host, weatherFile[i].timestamp)
                      = SkiDayFromEight(weatherFile[i].timestamp)
    /\ aggregated.called =>
           \A i \in DOMAIN hourlyData :
               StationMinute(hourlyData[i].timestamp) >= 480
               => DayKeyHistoric(hourlyData[i].timestamp)
                      = SkiDayFromEight(hourlyData[i].timestamp)

\* C5: once the recompute has run, a step that leaves the stored hourly table
\* as it is leaves the daily table as it is, however often the recompute runs
C5_RecomputeIsIdempotent ==
    [][(runs >= 1 /\ weatherFile' = weatherFile) => aggregatedFile' = aggregatedFile]_vars

\* the recompute has run a second time over a stored table that yields rows
C5_Witness ==
    /\ program = "job"
    /\ runs >= 2
    /\ weatherFile # <<>>
    /\ aggregatedFile # <<>>
    /\ aggregatedFile = DailyTable(host, weatherFile)

\* the two sentinels come together, and a depth that is not the sentinel is not negative
SentinelsPaired(snowfall, slr) ==
    /\ snowfall = RainCm <=> slr = RainSlr
    /\ snowfall # RainCm => snowfall >= 0

\* C6: in every record of the two daily aggregations and in every non-null
\* value of calculateTodayFromHourly, snowfall is -1 exactly when slr is -1,
\* and a snowfall that is not -1 is >= 0
C6_SentinelsPaired ==
    /\ \A k \in DOMAIN aggregatedFile :
           SentinelsPaired(aggregatedFile[k].snowfall_cm.v, aggregatedFile[k].slr.v)
    /\ aggregated.called =>
           \A k \in DOMAIN aggregated.out :
               SentinelsPaired(aggregated.out[k].snowfall_cm.v, aggregated.out[k].slr.v)
    /\ (todayValue.called /\ ~todayValue.out.null) =>
           SentinelsPaired(todayValue.out.snowfall, todayValue.out.slr)

\* the daily table holds the record of a day that had a snow hour and a rain hour
C6_Witness ==
    /\ program = "job"
    /\ \E k \in DOMAIN aggregatedFile : \E i, j \in DOMAIN weatherFile :
           /\ DayKey(host, weatherFile[i].timestamp) = aggregatedFile[k].date
           /\ DayKey(host, weatherFile[j].timestamp) = aggregatedFile[k].date
           /\ RainLine(weatherFile[i])
           /\ Counted(weatherFile[j])
           /\ LineSnowCalc(weatherFile[j]) > 0


-----------------------------------------------------------------------------
(* The partial-day estimate of the front page *)

\* what a visit shows for its 24 hourly entries: the in-progress ski-day it
\* selects, today's value and the spliced daily series
EstimateOf(tz, data, hours) ==
    [day    |-> CurrentMetDayCET(tz, hours),
     value  |-> calculateTodayFromHourly(tz, hours),
     series |-> prepareDailySeries(tz, data, hours)]

\* the same for a visit at wall-clock time now that fetched dataByTime
EstimateAt(tz, data, dataByTime, now) ==
    EstimateOf(tz, data, fetchLast24Hours(tz, dataByTime, now))

\* the readings hold at least one temperature
HasTemperature(dataByTime) == \E e \in dataByTime : e.temperature.def

\* every visit at another wall-clock time shows, for the same readings, what
\* this visit shows
SameAtAnyClock ==
    \A shown \in {EstimateOf(host.tz, dailySeries.data, last24)} :
        /\ shown.series = dailySeries.out
        /\ \A other \in PageClocks :
               EstimateAt(host.tz, dailySeries.data, fetched, other) = shown

\* C11: the partial-day estimate is a function of the fetched readings only:
\* a visit at any other wall-clock time, given the same readings, selects the
\* same in-progress ski-day, returns the same {snowfall, slr} and splices the
\* same daily series, also when no reading carries a temperature
C11_EstimateIgnoresClock ==
    (program = "page" /\ dailySeries.called) => SameAtAnyClock

\* the same statement for readings that hold a temperature
EstimateIgnoresClockGivenTemperature ==
    (program = "page" /\ dailySeries.called /\ HasTemperature(fetched)) => SameAtAnyClock

\* the entries of hours that carry a temperature and belong to the in-progress
\* ski-day the entries select
ReadingsInSkiDay(tz, hours) ==
    {i \in DOMAIN hours :
        /\ hours[i].temperature.def
        /\ IsRelevant(hours[i],
                      getDateKeyInCET(DayStartDate(tz, LatestDataPoint(hours))),
                      getDateKeyInCET(SetDatePlus(tz, DayStartDate(tz, LatestDataPoint(hours)), 1)))}

\* C12: when no hour slot carrying a temperature falls in the in-progress
\* ski-day, calculateTodayFromHourly returns null and prepareDailySeries
\* splices nothing into the daily series; placeholder slots are not readings
C12_NoReadingMeansNoData ==
    (program = "page" /\ last24 # <<>> /\ ReadingsInSkiDay(host.tz, last24) = {}) =>
        /\ todayValue.called => todayValue.out.null
        /\ dailySeries.called => dailySeries.out = SeriesOf(Unspliced(dailySeries.data))

-----------------------------------------------------------------------------
(* The compare page (app.js): all seasons, the five-year periods, the bands *)

\* for (let year = 1995; year <= 2024; year++)
FirstHistoricYear == 1995

LastHistoricYear == 2024

\* Seasons to exclude (broken measurement equipment)
excludedSeasons == {2017}

historicYears ==
    {year \in FirstHistoricYear..LastHistoricYear : year \notin excludedSeasons}

\* fetchSeasonData(year): the parsed rows of the season's file, none when the
\* file is missing (null and [] are treated alike by the callers)
fetchSeasonData(files, year) == IF year \in DOMAIN files THEN files[year] ELSE <<>>

\* the season start year of a local date: month >= 6 ? year : year - 1
SeasonYearOf(fields) == IF fields.month >= 6 THEN fields.year ELSE fields.year - 1

\* processSeasonData(data, year, isCurrentSeason): the record with its year
SeasonOf(tz, data, year, isCurrentSeason, todayKey) ==
    [year |-> year] @@ processSeasonData(tz, data, isCurrentSeason, todayKey)

\* historicResults without the nulls, in the order of historicYears
HistoricSeasons(tz, files, years, todayKey) ==
    [i \in DOMAIN years |-> SeasonOf(tz, files[years[i]], years[i], FALSE, todayKey)]

\* seasons.push(current) followed by the stable sort on year
PushAndSort(seasons, current) ==
    LET NotAfter(s) == s.year <= current.year
        After(s)    == s.year > current.year
    IN  SelectSeq(seasons, NotAfter) \o <<current>> \o SelectSeq(seasons, After)

\* loadAllSeasons()
loadAllSeasons(tz, files, currentData, todayKey) ==
    IF currentData = <<>>
    THEN HistoricSeasons(tz, files,
             SortedSeq({y \in historicYears : fetchSeasonData(files, y) # <<>>}), todayKey)
    ELSE PushAndSort(
             HistoricSeasons(tz, files,
                 SortedSeq({y \in historicYears : fetchSeasonData(files, y) # <<>>}), todayKey),
             SeasonOf(tz, currentData,
                      SeasonYearOf(LocalFields(tz, ParseDate(currentData[1].date))),
                      TRUE, todayKey))

\* new Date() of a visit on the date todayKey, at noon UTC
VisitInstant(todayKey) == todayKey * 1440 + 720

\* currentSeasonYear = now.getMonth() >= 6 ? now.getFullYear() : now.getFullYear() - 1
CurrentSeasonYear(tz, now) == SeasonYearOf(LocalFields(tz, now))

\* values.reduce((a, b) => a + b, 0) over the seasons' values of a slot that
\* are not null
SlotSum(seasons, day) ==
    SumSeq([i \in DOMAIN seasons |->
               IF seasons[i].data[day].def THEN seasons[i].data[day].v ELSE 0])

\* values.length
SlotCount(seasons, day) == Cardinality({i \in DOMAIN seasons : seasons[i].data[day].def})

\* the values of a slot
SlotValues(seasons, day) ==
    {seasons[i].data[day].v : i \in {k \in DOMAIN seasons : seasons[k].data[day].def}}

\* a mean kept as the fraction sum / n; the array's initial 0 when there is no value
Mean(sum, n) == IF n = 0 THEN [sum |-> 0, n |-> 1] ELSE [sum |-> sum, n |-> n]

\* the periods of groupIntoFiveYearPeriods
Periods ==
    << [label |-> "1995-99", years |-> 1995..1999],
       [label |-> "2000-04", years |-> 2000..2004],
       [label |-> "2005-09", years |-> 2005..2009],
       [label |-> "2010-14", years |-> 2010..2014],
       [label |-> "2015-19", years |-> {2015, 2016, 2018, 2019}],
       [label |-> "2020-24", years |-> 2020..2024] >>

\* periodSeasons = seasons.filter(s => period.years.includes(s.year))
PeriodSeasons(seasons, years) ==
    LET Included(s) == s.year \in years
    IN  SelectSeq(seasons, Included)

\* the entry pushed for a period that has seasons
PeriodEntry(label, periodSeasons) ==
    [label       |-> label,
     data        |-> [day \in 0..(SeasonSlots - 1) |->
                         Mean(SlotSum(periodSeasons, day), SlotCount(periodSeasons, day))],
     seasonCount |-> Len(periodSeasons),
     finalTotal  |-> Mean(SlotSum(periodSeasons, SeasonSlots - 1),
                          SlotCount(periodSeasons, SeasonSlots - 1)),
     isCurrent   |-> FALSE]

\* the entry pushed for the season whose year is currentSeasonYear
CurrentEntry(currentSeason) ==
    [label       |-> "nu",
     data        |-> currentSeason.data,
     seasonCount |-> 1,
     finalTotal  |-> currentSeason.finalTotal,
     isCurrent   |-> TRUE,
     todayIndex  |-> currentSeason.todayIndex]

\* the entries of the periods from period k on
RECURSIVE PeriodEntries(_, _)
PeriodEntries(seasons, k) ==
    IF k > Len(Periods) THEN <<>>
    ELSE IF PeriodSeasons(seasons, Periods[k].years) = <<>>
         THEN PeriodEntries(seasons, k + 1)
         ELSE <<PeriodEntry(Periods[k].label, PeriodSeasons(seasons, Periods[k].years))>>
              \o PeriodEntries(seasons, k + 1)

\* seasons.find(s => s.year === year) as the sequence of the first match
FindSeason(seasons, year) ==
    IF \E i \in DOMAIN seasons : seasons[i].year = year
    THEN <<seasons[Min({i \in DOMAIN seasons : seasons[i].year = year})]>>
    ELSE <<>>

\* groupIntoFiveYearPeriods(seasons)
groupIntoFiveYearPeriods(seasons, currentSeasonYear) ==
    IF FindSeason(seasons, currentSeasonYear) = <<>>
    THEN PeriodEntries(seasons, 1)
    ELSE Append(PeriodEntries(seasons, 1),
                CurrentEntry(FindSeason(seasons, currentSeasonYear)[1]))

\* completedSeasons = seasons.filter(s => s.year !== currentSeasonYear)
CompletedSeasons(seasons, currentSeasonYear) ==
    LET Completed(s) == s.year # currentSeasonYear
    IN  SelectSeq(seasons, Completed)

\* minData, maxData and avgData over the completed seasons
BandsOver(completedSeasons) ==
    [min |-> [day \in 0..(SeasonSlots - 1) |->
                 IF SlotCount(completedSeasons, day) > 0
                 THEN Min(SlotValues(completedSeasons, day)) ELSE 0],
     max |-> [day \in 0..(SeasonSlots - 1) |->
                 IF SlotCount(completedSeasons, day) > 0
                 THEN Max(SlotValues(completedSeasons, day)) ELSE 0],
     avg |-> [day \in 0..(SeasonSlots - 1) |->
                 Mean(SlotSum(completedSeasons, day), SlotCount(completedSeasons, day))]]

\* calculateBands(seasons)
calculateBands(seasons, currentSeasonYear) ==
    BandsOver(CompletedSeasons(seasons, currentSeasonYear))
        @@ [currentSeason |-> FindSeason(seasons, currentSeasonYear)]

\* the first season in order with the total t
FirstWithTotal(seasons, t) ==
    seasons[Min({i \in DOMAIN seasons : seasons[i].finalTotal = t})]

\* the last season in order with the total t
LastWithTotal(seasons, t) ==
    seasons[Max({i \in DOMAIN seasons : seasons[i].finalTotal = t})]

TotalsOf(seasons) == {seasons[i].finalTotal : i \in DOMAIN seasons}

\* { year, total } of a season
YearTotal(s) == [year |-> s.year, total |-> s.finalTotal]

\* sortedTotals[Math.floor(sortedTotals.length / 2)]
MedianTotal(seasons) ==
    CHOOSE v \in TotalsOf(seasons) :
        /\ Cardinality({i \in DOMAIN seasons : seasons[i].finalTotal < v})
               <= Len(seasons) \div 2
        /\ Cardinality({i \in DOMAIN seasons : seasons[i].finalTotal <= v})
               > Len(seasons) \div 2

\* the sum of the totals, in hundredths of a cm
SumTotals(seasons) == SumSeq([i \in DOMAIN seasons |-> seasons[i].finalTotal])

\* Math.round of the mean total of some, of all when there are none, in cm
RoundedMean(some, all) ==
    IF some # <<>> THEN RoundDiv(SumTotals(some), 100 * Len(some))
    ELSE RoundDiv(SumTotals(all), 100 * Len(all))

\* seasons.filter(s => s.year >= 2015)
RecentSeasons(seasons) ==
    LET Recent(s) == s.year >= 2015
    IN  SelectSeq(seasons, Recent)

\* seasons.filter(s => s.year < 2005)
EarlySeasons(seasons) ==
    LET Early(s) == s.year < 2005
    IN  SelectSeq(seasons, Early)

\* worstSeason: the lowest completed total, the lowest total when no season
\* is completed
WorstSeason(seasons, completed) ==
    IF completed # <<>>
    THEN YearTotal(FirstWithTotal(completed, Min(TotalsOf(completed))))
    ELSE YearTotal(LastWithTotal(seasons, Min(TotalsOf(seasons))))

\* calculateStats(seasons) for seasons.length > 0
calculateStats(seasons, currentSeasonYear) ==
    [bestSeason   |-> YearTotal(FirstWithTotal(seasons, Max(TotalsOf(seasons)))),
     worstSeason  |-> WorstSeason(seasons, CompletedSeasons(seasons, currentSeasonYear)),
     avgTotal     |-> RoundedMean(seasons, seasons),
     medianTotal  |-> RoundDiv(MedianTotal(seasons), 100),
     recentAvg    |-> RoundedMean(RecentSeasons(seasons), seasons),
     earlyAvg     |-> RoundedMean(EarlySeasons(seasons), seasons),
     totalSeasons |-> Len(seasons)]

\* renderChart(): the data of the chart for a view
RenderChart(view, seasons, currentSeasonYear) ==
    IF view = "periods"
    THEN [called |-> TRUE, view |-> view,
          out |-> groupIntoFiveYearPeriods(seasons, currentSeasonYear)]
    ELSE [called |-> TRUE, view |-> view,
          out |-> calculateBands(seasons, currentSeasonYear)]

\* the season files that may exist: two seasons next to the excluded one, the
\* excluded one, and the last historic season
FileYears == {2016, 2017, 2024}

\* a season file: 1.00 to 2.50 cm on Nov 1 by the year, 3.00 cm on Jan 10
FileRows(year) ==
    << [date |-> DaysFromCivil(year, 11, 1), snowfall_cm |-> Num(100 + 25 * (year % 10))],
       [date |-> DaysFromCivil(year + 1, 1, 10), snowfall_cm |-> Num(300)] >>

SeasonFileSets == { [year \in Y |-> FileRows(year)] : Y \in SUBSET FileYears }

\* data/aggregated_data.csv: missing, or the first two days of the 2025 season
CurrentTables ==
    { <<>>,
      << [date |-> DaysFromCivil(2025, 11, 1), snowfall_cm |-> Num(125)],
         [date |-> DaysFromCivil(2025, 11, 2), snowfall_cm |-> Num(300)] >> }

\* the dates of a visit: in the 2025 season, in the summer after it, and in
\* the season after it
CompareVisits ==
    { DaysFromCivil(2025, 11, 2), DaysFromCivil(2026, 1, 10),
      DaysFromCivil(2026, 7, 1),  DaysFromCivil(2026, 11, 2) }

InitComparePage ==
    /\ program = "initCompare"
    /\ host \in DateHosts
    /\ today \in CompareVisits
    /\ seasonData = <<>> /\ seasonRecord = NotCalled
    /\ historicFiles \in SeasonFileSets
    /\ currentTable \in CurrentTables
    /\ allSeasonsData = NotCalled /\ currentView = "periods"
    /\ stats = NotCalled /\ chart = NotCalled
    /\ IdleHistory
    /\ IdleJob /\ IdleHistoric /\ IdleAcc /\ IdleAxis /\ IdlePage /\ IdleFetch
    /\ IdleClassifier /\ IdleClock /\ IdleLoads

\* what initCompare leaves behind for the seasons it loaded
AfterInitCompare(seasons, currentSeasonYear) ==
    /\ allSeasonsData' = [called |-> TRUE, out |-> seasons]
    /\ IF seasons = <<>>
       THEN UNCHANGED <<stats, chart>>
       ELSE /\ stats' = [called |-> TRUE,
                         out |-> calculateStats(seasons, currentSeasonYear)]
            /\ chart' = RenderChart(currentView, seasons, currentSeasonYear)

\* initCompare(): loadAllSeasons, calculateStats, renderChart
InitCompare ==
    /\ program = "initCompare"
    /\ ~allSeasonsData.called
    /\ AfterInitCompare(loadAllSeasons(host.tz, historicFiles, currentTable, today),
                        CurrentSeasonYear(host.tz, VisitInstant(today)))
    /\ UNCHANGED <<program, host, historicFiles, currentTable, currentView, historyVars,
                   jobVars, historicVars, accVars, seasonVars, axisVars, pageVars, fetchVars, classifierVars, clockVars, loadVars>>

\* a click on the toggle button of the other view
ToggleView ==
    /\ program = "initCompare"
    /\ allSeasonsData.called /\ allSeasonsData.out # <<>>
    /\ \E view \in {"periods", "band"} :
           /\ view # currentView
           /\ currentView' = view
           /\ chart' = RenderChart(view, allSeasonsData.out,
                                   CurrentSeasonYear(host.tz, VisitInstant(today)))
    /\ UNCHANGED <<program, host, historicFiles, currentTable, allSeasonsData, stats,
                   historyVars,
                   jobVars, historicVars, accVars, seasonVars, axisVars, pageVars, fetchVars, classifierVars, clockVars, loadVars>>

-----------------------------------------------------------------------------
(* The history page (history.js) *)

\* getAvailableSeasons(): the years 1995..2024 whose file answers a HEAD request
getAvailableSeasons(files) ==
    SortedSeq({year \in FirstHistoricYear..LastHistoricYear : year \in DOMAIN files})

\* getYearFromURL(): the year parameter when it is a year of 1995..2024
getYearFromURL(yearParam) ==
    IF yearParam.def /\ yearParam.v >= FirstHistoricYear /\ yearParam.v <= LastHistoricYear
    THEN yearParam ELSE JsNone

\* availableSeasons.sort((a, b) => b - a)
Descending(seq) == [i \in DOMAIN seq |-> seq[Len(seq) + 1 - i]]

\* availableSeasons.indexOf(year) + 1: 0 when the year is not in the list
IndexOf(seq, year) ==
    IF \E i \in DOMAIN seq : seq[i] = year
    THEN Min({i \in DOMAIN seq : seq[i] = year}) ELSE 0

\* the older season the previous link leads to, none when the link is hidden
PrevYear(seasons, currentYear) ==
    IF IndexOf(seasons, currentYear) < Len(seasons)
    THEN Num(seasons[IndexOf(seasons, currentYear) + 1]) ELSE JsNone

\* the newer season the next link leads to, none when it leads to index.html
NextYear(seasons, currentYear) ==
    IF IndexOf(seasons, currentYear) > 1
    THEN Num(seasons[IndexOf(seasons, currentYear) - 1]) ELSE JsNone

\* fetchHistoricalData(year) gave rows: data.length > 0
HasData(files, year) == fetchSeasonData(files, year) # <<>>

\* the year parameters a visitor may arrive with: none, a season next to the
\* excluded one, the excluded one, and a year outside the range
UrlYears == {JsNone, Num(2016), Num(2017), Num(2030)}

InitHistoryPage ==
    /\ program = "history"
    /\ host \in DateHosts
    /\ historicFiles \in SeasonFileSets
    /\ urlYear \in UrlYears
    /\ availableSeasons = <<>> /\ shownYear = JsNone
    /\ prevLink = JsNone /\ nextLink = JsNone
    /\ IdleCompare
    /\ IdleJob /\ IdleHistoric /\ IdleAcc /\ IdleSeason /\ IdleAxis /\ IdlePage /\ IdleFetch
    /\ IdleClassifier /\ IdleClock /\ IdleLoads

\* loadSeason(year): the chart and the URL change when the season has rows,
\* and so does the navigation once the season list is there
LoadSeason(year, seasons) ==
    IF HasData(historicFiles, year)
    THEN /\ shownYear' = Num(year)
         /\ urlYear' = Num(year)
         /\ IF seasons # <<>>
            THEN /\ prevLink' = PrevYear(seasons, year)
                 /\ nextLink' = NextYear(seasons, year)
            ELSE UNCHANGED <<prevLink, nextLink>>
    ELSE UNCHANGED <<shownYear, urlYear, prevLink, nextLink>>

\* initHistory(): initializeSeasons loads the season of the URL, 2024 without
\* one, fetches the season list and updates the navigation
InitHistory ==
    /\ program = "history"
    /\ availableSeasons = <<>> /\ ~shownYear.def
    /\ \E selectedYear \in {JsOr(getYearFromURL(urlYear), LastHistoricYear)} :
           /\ availableSeasons' = Descending(getAvailableSeasons(historicFiles))
           /\ IF HasData(historicFiles, selectedYear)
              THEN shownYear' = Num(selectedYear) /\ urlYear' = Num(selectedYear)
              ELSE UNCHANGED <<shownYear, urlYear>>
           /\ prevLink' = PrevYear(availableSeasons', selectedYear)
           /\ nextLink' = NextYear(availableSeasons', selectedYear)
    /\ UNCHANGED <<program, host, historicFiles, compareVars,
                   jobVars, historicVars, accVars, seasonVars, axisVars, pageVars, fetchVars, classifierVars, clockVars, loadVars>>

\* a click on the previous-season link
ClickPrev ==
    /\ program = "history"
    /\ availableSeasons # <<>> /\ prevLink.def
    /\ LoadSeason(prevLink.v, availableSeasons)
    /\ UNCHANGED <<program, host, historicFiles, availableSeasons, compareVars,
                   jobVars, historicVars, accVars, seasonVars, axisVars, pageVars, fetchVars, classifierVars, clockVars, loadVars>>

\* a click on the next-season link when it leads to a season
ClickNext ==
    /\ program = "history"
    /\ availableSeasons # <<>> /\ nextLink.def
    /\ LoadSeason(nextLink.v, availableSeasons)
    /\ UNCHANGED <<program, host, historicFiles, availableSeasons, compareVars,
                   jobVars, historicVars, accVars, seasonVars, axisVars, pageVars, fetchVars, classifierVars, clockVars, loadVars>>

-----------------------------------------------------------------------------
(* The pages over the season files *)

InitPages == InitComparePage \/ InitHistoryPage

NextPages ==
    \/ InitCompare
    \/ ToggleView
    \/ InitHistory
    \/ ClickPrev
    \/ ClickNext

SpecPages == InitPages /\ [][NextPages]_vars

-----------------------------------------------------------------------------
(* The history page with the fetch of loadSeason under way (history.js) *)

\* most loadSeason calls that await their fetch at once
MaxInFlight == 2

\* most entries of the session history
MaxEntries == 4

\* an entry of the session history: history.state?.year and the year parameter
\* of its URL
Entry(state, url) == [state |-> state, url |-> url]

\* the page as the browser opens it: one entry, the URL the visitor came with
InitLoads ==
    /\ program = "history"
    /\ host \in DateHosts
    /\ historicFiles \in SeasonFileSets
    /\ urlYear \in UrlYears
    /\ availableSeasons = <<>> /\ shownYear = JsNone
    /\ prevLink = JsNone /\ nextLink = JsNone
    /\ inFlight = <<>> /\ requested = JsNone /\ overlapped = FALSE /\ navShown = FALSE
    /\ historyEntries = <<Entry(JsNone, urlYear)>> /\ position = 1
    /\ IdleCompare
    /\ IdleJob /\ IdleHistoric /\ IdleAcc /\ IdleSeason /\ IdleAxis /\ IdlePage /\ IdleFetch
    /\ IdleClassifier /\ IdleClock

\* updateURL(year): pushState drops the entries after the current one and adds
\* one for the year
PushedEntries(year) ==
    Append(SubSeq(historyEntries, 1, position), Entry(Num(year), Num(year)))

\* initHistory() up to the registration of the listeners: the first season is
\* loaded and shown, the season list fetched and the navigation displayed; no
\* click or popstate is handled before that
InitializeSeasons ==
    /\ program = "history"
    /\ historyEntries # <<>> /\ ~requested.def
    /\ \E selectedYear \in {JsOr(getYearFromURL(urlYear), LastHistoricYear)} :
           /\ requested' = Num(selectedYear)
           /\ availableSeasons' = Descending(getAvailableSeasons(historicFiles))
           /\ IF HasData(historicFiles, selectedYear)
              THEN /\ shownYear' = Num(selectedYear) /\ urlYear' = Num(selectedYear)
                   /\ historyEntries' = PushedEntries(selectedYear)
                   /\ position' = position + 1
              ELSE UNCHANGED <<shownYear, urlYear, historyEntries, position>>
           /\ prevLink' = PrevYear(availableSeasons', selectedYear)
           /\ nextLink' = NextYear(availableSeasons', selectedYear)
    /\ navShown' = TRUE
    /\ UNCHANGED <<program, host, historicFiles, compareVars, inFlight, overlapped,
                   jobVars, historicVars, accVars, seasonVars, axisVars, pageVars, fetchVars,
                   classifierVars, clockVars>>

\* loadSeason(year) up to its await: the navigation is hidden and the fetch of
\* the season file begins
StartLoad(year, current) ==
    /\ Len(inFlight) < MaxInFlight
    /\ current + Len(inFlight) < MaxEntries
    /\ inFlight' = Append(inFlight, year)
    /\ requested' = Num(year)
    /\ overlapped' = (inFlight # <<>>)
    /\ navShown' = FALSE

\* a click on the previous-season link, or on the next-season link when it
\* leads to a season
ClickLink ==
    /\ program = "history"
    /\ requested.def /\ navShown
    /\ \E link \in {prevLink, nextLink} : link.def /\ StartLoad(link.v, position)
    /\ UNCHANGED <<program, host, historicFiles, compareVars, urlYear, availableSeasons,
                   shownYear, prevLink, nextLink, historyEntries, position,
                   jobVars, historicVars, accVars, seasonVars, axisVars, pageVars, fetchVars,
                   classifierVars, clockVars>>

\* the back or the forward button: the popstate listener loads
\* e.state?.year || getYearFromURL() when that is a year
PopState ==
    /\ program = "history"
    /\ requested.def
    /\ \E p \in {position - 1, position + 1} \cap DOMAIN historyEntries :
           /\ position' = p
           /\ urlYear' = historyEntries[p].url
           /\ \E year \in {IF historyEntries[p].state.def THEN historyEntries[p].state
                            ELSE getYearFromURL(historyEntries[p].url)} :
                  IF year.def THEN StartLoad(year.v, p)
                  ELSE UNCHANGED <<inFlight, requested, overlapped, navShown>>
    /\ UNCHANGED <<program, host, historicFiles, compareVars, availableSeasons,
                   shownYear, prevLink, nextLink, historyEntries,
                   jobVars, historicVars, accVars, seasonVars, axisVars, pageVars, fetchVars,
                   classifierVars, clockVars>>

\* the fetch of one of the loadSeason calls is answered, in whatever order: with
\* rows the chart, the subtitle, the URL and the navigation are updated
SeasonLoaded ==
    /\ program = "history"
    /\ \E i \in DOMAIN inFlight :
           /\ inFlight' = SubSeq(inFlight, 1, i - 1) \o SubSeq(inFlight, i + 1, Len(inFlight))
           /\ LoadSeason(inFlight[i], availableSeasons)
           /\ IF HasData(historicFiles, inFlight[i])
              THEN /\ historyEntries' = PushedEntries(inFlight[i])
                   /\ position' = position + 1
                   /\ navShown' = (navShown \/ availableSeasons # <<>>)
              ELSE UNCHANGED <<historyEntries, position, navShown>>
    /\ UNCHANGED <<program, host, historicFiles, compareVars, availableSeasons,
                   requested, overlapped,
                   jobVars, historicVars, accVars, seasonVars, axisVars, pageVars, fetchVars,
                   classifierVars, clockVars>>

NextLoads ==
    \/ InitializeSeasons
    \/ ClickLink
    \/ PopState
    \/ SeasonLoaded

SpecLoads == InitLoads /\ [][NextLoads]_vars

-----------------------------------------------------------------------------
(* The parameter fetches of fetchHourlyData, bootstrapHistoricalData and      *)
(* fetchLast24Hours                                                           *)

\* Object.entries(PARAMETER_CODES), in the order of the object
ParameterKeys ==
    <<"temperature", "precipitation", "wind_direction", "humidity", "wind_speed",
      "visibility">>

\* the operations that fetch every parameter
FetchOperations == {"fetchHourlyData", "bootstrapHistoricalData", "fetchLast24Hours"}

\* the periods an operation asks a parameter for, the fallback after the first
PeriodsOf(operation) ==
    CASE operation = "fetchHourlyData"         -> <<"latest-day", "latest-hour">>
      [] operation = "bootstrapHistoricalData" -> <<"latest-months", "latest-day">>
      [] operation = "fetchLast24Hours"        -> <<"latest-day">>

\* bootstrapHistoricalData(startDate = '2025-10-01')
BootstrapStart == Instant(2025, 10, 1, 0, 0)

\* what the station has: a reading of every parameter at 07:00Z and at 08:00Z of
\* 2025-11-05, except that it reported no precipitation at 08:00Z and no
\* visibility at 07:00Z, and a temperature of the day before the bootstrap start
StationData(key) ==
    CASE key = "temperature" ->
             { [timestamp |-> Instant(2025, 9, 30, 12, 0), value |-> 80],
               [timestamp |-> Instant(2025, 11, 5, 7, 0), value |-> -50],
               [timestamp |-> Instant(2025, 11, 5, 8, 0), value |-> -40] }
      [] key = "precipitation" ->
             { [timestamp |-> Instant(2025, 11, 5, 7, 0), value |-> 10] }
      [] key = "wind_direction" ->
             { [timestamp |-> Instant(2025, 11, 5, 7, 0), value |-> 270],
               [timestamp |-> Instant(2025, 11, 5, 8, 0), value |-> 280] }
      [] key = "humidity" ->
             { [timestamp |-> Instant(2025, 11, 5, 7, 0), value |-> 90],
               [timestamp |-> Instant(2025, 11, 5, 8, 0), value |-> 85] }
      [] key = "wind_speed" ->
             { [timestamp |-> Instant(2025, 11, 5, 7, 0), value |-> 20],
               [timestamp |-> Instant(2025, 11, 5, 8, 0), value |-> 50] }
      [] key = "visibility" ->
             { [timestamp |-> Instant(2025, 11, 5, 8, 0), value |-> 30000] }

\* data.value of an answered request: the last months, the last day, or the
\* last hour of the parameter
Answer(key, period) ==
    CASE period = "latest-months" ->
             {e \in StationData(key) : e.timestamp >= BootstrapStart}
      [] period = "latest-day" ->
             {e \in StationData(key) : e.timestamp >= Instant(2025, 11, 4, 8, 0)}
      [] period = "latest-hour" ->
             {e \in StationData(key) :
                 e.timestamp = Max({x.timestamp : x \in StationData(key)})}

\* a request: the period it is asking for (attempt), and whether it is under
\* way, answered, or given up ({ key, data: null })
Pending(attempt) == [attempt |-> attempt, state |-> "pending"]

\* mutant: one failed parameter leaves nothing to merge
ValuesOfAllOrNothing(operation, settled, key) ==
    IF \E k \in DOMAIN settled : settled[k].state = "failed" THEN {}
    ELSE Answer(key, PeriodsOf(operation)[settled[key].attempt])

\* the data.value of a parameter in results: empty for { key, data: null }
ValuesOf(operation, settled, key) ==
    IF settled[key].state = "failed" THEN {}
    ELSE Answer(key, PeriodsOf(operation)[settled[key].attempt])

\* the timestamps of the entries an operation merges: all of them, from
\* startDate on for the bootstrap
MergedTimes(operation, entries) ==
    IF operation = "bootstrapHistoricalData"
    THEN {e.timestamp : e \in {x \in entries : x.timestamp >= BootstrapStart}}
    ELSE {e.timestamp : e \in entries}

\* the keys of dataByTime in insertion order: parameter by parameter, each
\* parameter's entries in time order
RECURSIVE TimesInOrder(_, _, _, _)
TimesInOrder(operation, settled, k, order) ==
    IF k > Len(ParameterKeys) THEN order
    ELSE TimesInOrder(operation, settled, k + 1,
             order \o SortedSeq(MergedTimes(operation,
                                    ValuesOf(operation, settled, ParameterKeys[k]))
                                \ Range(order)))

\* dataByTime[timestampISO][key]
ValueAt(operation, settled, key, t) ==
    IF \E e \in ValuesOf(operation, settled, key) : e.timestamp = t
    THEN Num((CHOOSE e \in ValuesOf(operation, settled, key) : e.timestamp = t).value)
    ELSE JsNone

\* the key of an entry in dataByTime: its timestamp, which fetchLast24Hours
\* first sets to the whole hour
TimeKey(operation, t) ==
    IF operation = "fetchLast24Hours" THEN SetMinutesZero(t) ELSE t

\* a record of dataByTime in which no parameter has a value yet
EmptyRecord(t) ==
    [timestamp |-> t, temperature |-> JsNone, precipitation |-> JsNone,
     wind_direction |-> JsNone, humidity |-> JsNone, wind_speed |-> JsNone,
     visibility |-> JsNone]

\* mutant: every entry starts the record of its timestamp afresh
StartAfresh(byTime, t) ==
    IF \E i \in DOMAIN byTime : byTime[i].timestamp = t
    THEN [i \in DOMAIN byTime |->
             IF byTime[i].timestamp = t THEN EmptyRecord(t) ELSE byTime[i]]
    ELSE Append(byTime, EmptyRecord(t))

\* if (!dataByTime[timestampISO]) dataByTime[timestampISO] = {}
RecordFor(byTime, t) ==
    IF \E i \in DOMAIN byTime : byTime[i].timestamp = t THEN byTime
    ELSE Append(byTime, EmptyRecord(t))

\* dataByTime[timestampISO][key] = parsed.value
SetValue(byTime, t, key, value) ==
    [i \in DOMAIN byTime |->
        IF byTime[i].timestamp = t THEN [byTime[i] EXCEPT ![key] = Num(value)]
        ELSE byTime[i]]

\* for (const entry of data.value): the entries of one parameter, in time order
RECURSIVE MergeEntries(_, _, _, _)
MergeEntries(byTime, operation, key, entries) ==
    IF entries = {} THEN byTime
    ELSE LET entry == CHOOSE e \in entries : \A x \in entries : e.timestamp <= x.timestamp
             t     == TimeKey(operation, entry.timestamp)
         IN  MergeEntries(SetValue(RecordFor(byTime, t), t, key, entry.value),
                          operation, key, entries \ {entry})

\* for (const { key, data } of results): the parameters in the order of keys,
\* the bootstrap leaving out the entries before startDate
RECURSIVE MergeInOrder(_, _, _, _)
MergeInOrder(keys, operation, settled, byTime) ==
    IF keys = <<>> THEN byTime
    ELSE MergeInOrder(Tail(keys), operation, settled,
             MergeEntries(byTime, operation, Head(keys),
                 {e \in ValuesOf(operation, settled, Head(keys)) :
                     operation = "bootstrapHistoricalData" => e.timestamp >= BootstrapStart}))

\* Object.entries(dataByTime): Promise.all gives the results in the order of
\* the parameters, whichever request was answered first
MergeByTime(operation, settled) == MergeInOrder(ParameterKeys, operation, settled, <<>>)

\* the records read off the answers, timestamp by timestamp
LookedUpByTime(operation, settled) ==
    LET order == TimesInOrder(operation, settled, 1, <<>>)
    IN  [i \in DOMAIN order |->
            [timestamp      |-> order[i],
             temperature    |-> ValueAt(operation, settled, "temperature", order[i]),
             precipitation  |-> ValueAt(operation, settled, "precipitation", order[i]),
             wind_direction |-> ValueAt(operation, settled, "wind_direction", order[i]),
             humidity       |-> ValueAt(operation, settled, "humidity", order[i]),
             wind_speed     |-> ValueAt(operation, settled, "wind_speed", order[i]),
             visibility     |-> ValueAt(operation, settled, "visibility", order[i])]]

\* the records with a temperature and a precipitation, sorted by timestamp
CompleteRecords(merged) ==
    LET complete == {i \in DOMAIN merged :
                        merged[i].temperature.def /\ merged[i].precipitation.def}
        times    == SortedSeq({merged[i].timestamp : i \in complete})
    IN  [n \in DOMAIN times |-> merged[CHOOSE i \in complete : merged[i].timestamp = times[n]]]

\* new Date() of a front-page visit, should no temperature have arrived
FetchClock == Instant(2025, 11, 5, 8, 30)

\* what the operation resolves with for the merged values
Resolved(operation, tz, file, merged) ==
    CASE operation = "fetchHourlyData"         -> fetchHourlyData(file, merged)
      [] operation = "bootstrapHistoricalData" -> CompleteRecords(merged)
      [] operation = "fetchLast24Hours"        -> fetchLast24Hours(tz, Range(merged), FetchClock)

\* weather_data.csv before the fetch: only its header, or the 07:00Z reading
StoredFiles ==
    { <<>>,
      << [timestamp |-> Instant(2025, 11, 5, 7, 0), temperature |-> Num(-50),
          precipitation |-> Num(10), wind_speed |-> Num(20), humidity |-> Num(90)] >> }

InitFetch ==
    /\ program \in FetchOperations
    /\ host \in {h \in DateHosts : program = "fetchLast24Hours" \/ h.tz = "UTC"}
    /\ weatherFile \in {f \in StoredFiles : program = "fetchHourlyData" \/ f = <<>>}
    /\ aggregatedFile = <<>> /\ runs = 0 /\ outcome = "" /\ apiResponse = <<>>
    /\ promises = [k \in Range(ParameterKeys) |-> Pending(1)]
    /\ mergedByTime = <<>>
    /\ fetchResult = NotCalled
    /\ IdleHistoric /\ IdleAcc /\ IdleSeason /\ IdleAxis /\ IdlePage /\ IdleSeasonFiles
    /\ IdleClassifier /\ IdleClock /\ IdleLoads

\* a parameter's request is answered
RequestSucceeds ==
    /\ program \in FetchOperations
    /\ \E key \in DOMAIN promises :
           /\ promises[key].state = "pending"
           /\ promises' = [promises EXCEPT ![key].state = "answered"]
    /\ UNCHANGED <<program, host, mergedByTime, fetchResult,
                   jobVars, historicVars, accVars, seasonVars, axisVars, pageVars,
                   seasonFilesVars, classifierVars, clockVars, loadVars>>

\* a parameter's request fails: the catch block asks for the fallback period,
\* and returns { key, data: null } when there is none left
RequestFails ==
    /\ program \in FetchOperations
    /\ \E key \in DOMAIN promises :
           /\ promises[key].state = "pending"
           /\ promises' =
                  IF promises[key].attempt < Len(PeriodsOf(program))
                  THEN [promises EXCEPT ![key] = Pending(promises[key].attempt + 1)]
                  ELSE [promises EXCEPT ![key].state = "failed"]
    /\ UNCHANGED <<program, host, mergedByTime, fetchResult,
                   jobVars, historicVars, accVars, seasonVars, axisVars, pageVars,
                   seasonFilesVars, classifierVars, clockVars, loadVars>>

\* Promise.all(parameterPromises) resolved: the results are merged by timestamp
\* and the operation returns
MergeResults ==
    /\ program \in FetchOperations
    /\ ~fetchResult.called
    /\ \A key \in DOMAIN promises : promises[key].state # "pending"
    /\ mergedByTime' = MergeByTime(program, promises)
    /\ fetchResult' = [called |-> TRUE, rejected |-> FALSE,
                       out |-> Resolved(program, host.tz, weatherFile, mergedByTime')]
    /\ UNCHANGED <<program, host, promises,
                   jobVars, historicVars, accVars, seasonVars, axisVars, pageVars,
                   seasonFilesVars, classifierVars, clockVars, loadVars>>

NextFetch == RequestSucceeds \/ RequestFails \/ MergeResults

SpecFetch == InitFetch /\ [][NextFetch]_vars

-----------------------------------------------------------------------------
(* The classifier on its own: one call of calculateSnowfall *)

\* temperatures in tenths of a degree, around the wet-bulb limits of 1.0 C and
\* -2.0 C at the humidities below, and one where the ratio reaches its cap
Temps == {-200, -60, -50, -21, -20, 10, 11, 20, 60, 61}

\* precipitation in tenths of a mm: missing, negative, none, 0.1, 1.0 and 2.0 mm
Precipitations == {JsNone, Num(-5), Num(0), Num(1), Num(10), Num(20)}

\* wind in tenths of a m/s: calm, the 2.5 m/s of the wind factor, and above
Winds == {0, 25, 50, 100, 400}

\* humidity in percent, or left out of the call
Humidities == {JsNone, Num(50), Num(90), Num(100)}

InitClassifier ==
    /\ program = "calculateSnowfall"
    /\ host \in {h \in DateHosts : h.tz = "UTC"}
    /\ snowArgs \in [temp : Temps, mm : Precipitations, wind : Winds, hum : Humidities]
    /\ snowCm = NotCalled
    /\ IdleJob /\ IdleHistoric /\ IdleAcc /\ IdleSeason /\ IdleAxis /\ IdlePage
    /\ IdleSeasonFiles /\ IdleFetch /\ IdleClock /\ IdleLoads

\* calculateSnowfall(temp, mm, wind, hum) returns
CalculateSnowfall ==
    /\ program = "calculateSnowfall"
    /\ ~snowCm.called
    /\ snowCm' = [called |-> TRUE,
                  out |-> CallSnowfall(snowArgs.temp, snowArgs.mm, snowArgs.wind,
                                       snowArgs.hum)]
    /\ UNCHANGED <<program, host, snowArgs, jobVars, historicVars, accVars, seasonVars,
                   axisVars, pageVars, seasonFilesVars, fetchVars, clockVars, loadVars>>

NextClassifier == CalculateSnowfall

SpecClassifier == InitClassifier /\ [][NextClassifier]_vars

-----------------------------------------------------------------------------
(* Local time: getHourInCET and getDateKeyInCET of each component, and the   *)
(* day key built from them                                                   *)

\* the days whose hours are looked at: the turn of the year, the end of
\* February in a leap year and in a common year, a day of March before summer
\* time, the days summer time starts and ends in 2025, a summer day, a day of
\* October after summer time, and a winter day
ClockDays ==
    { DaysFromCivil(2024, 12, 31), DaysFromCivil(2025, 1, 1),
      DaysFromCivil(2024, 2, 29),  DaysFromCivil(2024, 3, 1),
      DaysFromCivil(2025, 2, 28),  DaysFromCivil(2025, 3, 1),
      DaysFromCivil(2025, 3, 10),  DaysFromCivil(2025, 3, 30),
      DaysFromCivil(2025, 7, 1),   DaysFromCivil(2025, 10, 26),
      DaysFromCivil(2025, 10, 28), DaysFromCivil(2025, 11, 5) }

\* every whole hour of those days, in UTC
ClockInstants == {(d * 24 + hh) * 60 : d \in ClockDays, hh \in 0..23}

\* what the three components compute for a Date
LocalTimesOf(h, t) ==
    [historic |-> [hour   |-> getHourInCETHistoric(t),
                   date   |-> getDateKeyInCETHistoric(t),
                   dayKey |-> DayKeyHistoric(t)],
     job      |-> [hour   |-> getHourInCET(h.h24, t),
                   date   |-> getDateKeyInCET(t),
                   dayKey |-> DayKey(h, t)],
     page     |-> [hour   |-> getHourInCETPage(t),
                   date   |-> getDateKeyInCET(t)]]

InitClock ==
    /\ program = "localTime"
    /\ host \in Hosts
    /\ instant \in ClockInstants
    /\ localTimes = NotCalled
    /\ IdleJob /\ IdleHistoric /\ IdleAcc /\ IdleSeason /\ IdleAxis /\ IdlePage
    /\ IdleSeasonFiles /\ IdleFetch /\ IdleClassifier /\ IdleLoads

\* the components read the hour and the date of the instant
ReadLocalTime ==
    /\ program = "localTime"
    /\ ~localTimes.called
    /\ localTimes' = [called |-> TRUE, out |-> LocalTimesOf(host, instant)]
    /\ UNCHANGED <<program, host, instant, jobVars, historicVars, accVars, seasonVars,
                   axisVars, pageVars, seasonFilesVars, fetchVars, classifierVars,
                   loadVars>>

NextClock == ReadLocalTime

SpecClock == InitClock /\ [][NextClock]_vars

-----------------------------------------------------------------------------
(* What the pages show of a season in progress and of an excluded season *)

\* the season records that are not marked in progress
UnmarkedSeasons(seasons) ==
    LET Unmarked(s) == ~s.isCurrent
    IN  SelectSeq(seasons, Unmarked)

\* a record marked in progress that has a value in some slot
MarkedWithValues(seasons) ==
    \E i \in DOMAIN seasons :
        /\ seasons[i].isCurrent
        /\ \E day \in 0..(SeasonSlots - 1) : seasons[i].data[day].def

\* the bands shown are those of the seasons in completed
BandsAreOver(completed) ==
    /\ chart.out.min = BandsOver(completed).min
    /\ chart.out.max = BandsOver(completed).max
    /\ chart.out.avg = BandsOver(completed).avg

\* C13: a season record marked in progress (isCurrent) contributes to the min,
\* max and avg of no slot of the bands, whatever the date of the visit: the
\* bands are those of the records that are not marked
C13_CurrentSeasonOutsideBands ==
    (program = "initCompare" /\ chart.called /\ chart.view = "band") =>
        BandsAreOver(UnmarkedSeasons(allSeasonsData.out))

\* the same for a visit made while the wall clock is still in the season the
\* current table started in
BandsWithinTheSeason ==
    (/\ program = "initCompare" /\ chart.called /\ chart.view = "band"
     /\ \A i \in DOMAIN allSeasonsData.out :
            allSeasonsData.out[i].isCurrent =>
                allSeasonsData.out[i].year = CurrentSeasonYear(host.tz, VisitInstant(today)))
        => BandsAreOver(UnmarkedSeasons(allSeasonsData.out))

\* the season files without the file of an excluded season
WithoutExcluded(files) == [year \in DOMAIN files \ excludedSeasons |-> files[year]]

\* the compare page shows what it would show if the excluded season's file did
\* not exist, and no season it loaded is an excluded one
ComparePageExcludes ==
    /\ allSeasonsData.called =>
           /\ \A i \in DOMAIN allSeasonsData.out :
                  allSeasonsData.out[i].year \notin excludedSeasons
           /\ allSeasonsData.out =
                  loadAllSeasons(host.tz, WithoutExcluded(historicFiles), currentTable, today)
    /\ stats.called =>
           stats.out = calculateStats(
                           loadAllSeasons(host.tz, WithoutExcluded(historicFiles),
                                          currentTable, today),
                           CurrentSeasonYear(host.tz, VisitInstant(today)))
    /\ chart.called =>
           chart = RenderChart(chart.view,
                               loadAllSeasons(host.tz, WithoutExcluded(historicFiles),
                                              currentTable, today),
                               CurrentSeasonYear(host.tz, VisitInstant(today)))

\* once the history page has its season list, it lists, accepts from the URL,
\* links to and shows no excluded season
HistoryPageExcludes ==
    availableSeasons # <<>> =>
    /\ \A i \in DOMAIN availableSeasons : availableSeasons[i] \notin excludedSeasons
    /\ getYearFromURL(urlYear).def => getYearFromURL(urlYear).v \notin excludedSeasons
    /\ shownYear.def => shownYear.v \notin excludedSeasons
    /\ prevLink.def => prevLink.v \notin excludedSeasons
    /\ nextLink.def => nextLink.v \notin excludedSeasons

\* C14: the excluded season (start year 2017) appears in no aggregate and in no
\* list even when its file exists: not in the seasons of loadAllSeasons, the
\* period means, the bands and the statistics, nor in the seasons the history
\* page offers (getAvailableSeasons, getYearFromURL)
C14_ExcludedSeasonNeverAppears ==
    /\ program = "initCompare" => ComparePageExcludes
    /\ program = "history" => HistoryPageExcludes

\* the part of C14 that is about the compare page
ExcludedSeasonOutsideCompare == program = "initCompare" => ComparePageExcludes

-----------------------------------------------------------------------------
(* One parameter's failure among the parameter fetches *)

\* the entries of a parameter whose request was answered, from the period that
\* answered and from the start date on for the bootstrap
AnsweredEntries(key) ==
    {e \in Answer(key, PeriodsOf(program)[promises[key].attempt]) :
        program = "bootstrapHistoricalData" => e.timestamp >= BootstrapStart}

\* every value of every answered parameter is in the merged values
AnsweredAreMerged ==
    \A key \in DOMAIN promises : promises[key].state = "answered" =>
        \A e \in AnsweredEntries(key) :
            \E i \in DOMAIN mergedByTime :
                /\ mergedByTime[i].timestamp = e.timestamp
                /\ mergedByTime[i][key] = Num(e.value)

\* a merged hour is in what the operation returns, with its values, unless its
\* temperature or its precipitation is missing (or, for fetchHourlyData, the
\* hour is stored already); the front page returns every hour with a temperature
KeptUnlessIncomplete ==
    \A i \in DOMAIN mergedByTime :
        \A m \in {mergedByTime[i]} :
            CASE program = "fetchHourlyData" ->
                     (/\ m.temperature.def /\ m.precipitation.def
                      /\ m.timestamp \notin ExistingTimestamps(weatherFile))
                     => m \in Range(fetchResult.out)
              [] program = "bootstrapHistoricalData" ->
                     (m.temperature.def /\ m.precipitation.def)
                     => m \in Range(fetchResult.out)
              [] program = "fetchLast24Hours" ->
                     m.temperature.def
                     => \E n \in DOMAIN fetchResult.out :
                            /\ fetchResult.out[n].timestamp = m.timestamp
                            /\ fetchResult.out[n].temperature = m.temperature
                            /\ fetchResult.out[n].precipitation = JsOr(m.precipitation, 0)

\* C15: in fetchHourlyData, bootstrapHistoricalData and fetchLast24Hours, when
\* the fetch of a parameter fails, in whatever order the requests settle, the
\* operation returns only after every other request has settled, it does not
\* reject, the values of every answered parameter are merged, and a merged hour
\* is dropped from the result only when its temperature or its precipitation
\* is missing
C15_OneFailureCancelsNothing ==
    (program \in FetchOperations /\ fetchResult.called) =>
        /\ \A key \in DOMAIN promises : promises[key].state # "pending"
        /\ ~fetchResult.rejected
        /\ AnsweredAreMerged
        /\ KeptUnlessIncomplete

\* the humidity request failed for good, the other five were answered, and the
\* operation returned hours
C15_Witness ==
    /\ program \in FetchOperations /\ fetchResult.called
    /\ promises["humidity"].state = "failed"
    /\ \A key \in DOMAIN promises \ {"humidity"} : promises[key].state = "answered"
    /\ \E i \in DOMAIN mergedByTime :
           mergedByTime[i].wind_speed.def /\ ~mergedByTime[i].humidity.def
    /\ fetchResult.out # <<>>

-----------------------------------------------------------------------------
(* What calculateSnowfall returns *)

\* the call had a precipitation above 0
Precipitates == snowArgs.mm.def /\ snowArgs.mm.v > 0

\* temperature - (100 - humidity) / 10 of the call, in tenths of a degree
WetBulbOfCall ==
    snowArgs.temp - (100 - (IF snowArgs.hum.def THEN snowArgs.hum.v ELSE 90))

\* the ratio in thousandths: 8 - wetBulb from -2 C up, 10 + 1.15 x (-2 - wetBulb)
\* below, held within 5 and 30
RatioOfCall ==
    Max({5000, Min({30000,
        IF WetBulbOfCall >= -20 THEN 8000 - 100 * WetBulbOfCall
        ELSE 10000 + 115 * (-20 - WetBulbOfCall)})})

\* C16: for every precipitation <= 0, and for a missing precipitation,
\* calculateSnowfall returns the amount 0 and not the rain marker -1, whatever
\* the temperature, the wind and the humidity are
C16_NoPrecipitationNoSnow ==
    (snowCm.called /\ ~Precipitates) => snowCm.out = 0 /\ snowCm.out # RainCm

\* a call at -5.0 C in saturated air with a negative precipitation has returned
C16_Witness ==
    /\ snowCm.called
    /\ snowArgs.mm = Num(-5) /\ snowArgs.temp = -50 /\ snowArgs.hum = Num(100)

\* C17 as stated: with precipitation above 0, calculateSnowfall returns no snow
\* amount if and only if temperature - (100 - humidity) / 10 is above 1.0
C17_NoSnowIffWetBulbAbove ==
    (snowCm.called /\ Precipitates) => (snowCm.out = 0 <=> WetBulbOfCall > 10)

\* C17: with precipitation above 0, calculateSnowfall returns no snow amount
\* when temperature - (100 - humidity) / 10 is above 1.0; at or below 1.0 it
\* returns precipitation x ratio x wind factor / 10 to the nearest hundredth,
\* which is above 0 from 0.005 cm on and is 0 for a smaller product; at 2.0 C,
\* 1.0 mm, no wind and 50 % humidity the amount is positive
C17_WetBulbGate ==
    (snowCm.called /\ Precipitates) =>
        /\ WetBulbOfCall > 10 => snowCm.out = 0
        /\ WetBulbOfCall <= 10 =>
              (snowCm.out > 0 <=>
                  Product(snowArgs.mm.v, RatioOfCall, WindFactor(snowArgs.wind)) >= 500000)
        /\ (/\ snowArgs.temp = 20 /\ snowArgs.mm = Num(10)
            /\ snowArgs.wind = 0 /\ snowArgs.hum = Num(50)) => snowCm.out > 0

\* the call at 2.0 C, 1.0 mm, no wind and 50 % humidity has returned
C17_Witness ==
    /\ snowCm.called
    /\ snowArgs.temp = 20 /\ snowArgs.mm = Num(10)
    /\ snowArgs.wind = 0 /\ snowArgs.hum = Num(50)

\* C18: with precipitation above 0, a wet bulb of at most 1.0 C and a wind of at
\* most 2.5 m/s, calculateSnowfall returns a hundredth of a cm nearest to
\* precipitation x slr / 10, where slr is 8 - wetBulb from -2 C up and
\* 10 + 1.15 x (-2 - wetBulb) below, held within 5 and 30; for -5.0 C, 2.0 mm,
\* no wind and 90 % humidity it returns 2.92 cm, the slr being 14.6
C18_AmountFromRatio ==
    (snowCm.called /\ Precipitates /\ WetBulbOfCall <= 10 /\ snowArgs.wind <= 25) =>
        /\ 2 * (1000 * snowCm.out - snowArgs.mm.v * RatioOfCall) <= 1000
        /\ 2 * (snowArgs.mm.v * RatioOfCall - 1000 * snowCm.out) <= 1000
        /\ (/\ snowArgs.temp = -50 /\ snowArgs.mm = Num(20)
            /\ snowArgs.wind = 0 /\ snowArgs.hum = Num(90)) =>
               snowCm.out = 292 /\ RatioOfCall = 14600

\* the call at -5.0 C, 2.0 mm, no wind and 90 % humidity has returned, as has,
\* in other behaviours, a call whose ratio is held at 30
C18_Witness ==
    /\ snowCm.called
    /\ snowArgs.temp = -50 /\ snowArgs.mm = Num(20)
    /\ snowArgs.wind = 0 /\ snowArgs.hum = Num(90)

\* a call in calm air whose ratio is held at 30 has returned
RatioHeldAtCap ==
    /\ snowCm.called /\ Precipitates /\ snowArgs.wind <= 25
    /\ snowArgs.temp = -200 /\ RatioOfCall = 30000

-----------------------------------------------------------------------------
(* The season of a daily record *)

\* the date lies in the months of a season, November to April
InSeasonMonths(date) == CivilFromDays(date).month \in {11, 12, 1, 2, 3, 4}

\* the start year of the season of a date: the year from November on, the year
\* before until April
StartYearOf(date) ==
    IF CivilFromDays(date).month >= 11 THEN CivilFromDays(date).year
    ELSE CivilFromDays(date).year - 1

\* the records of calculateDailyAggregates are of ski-days from November to
\* April, each under the season its date gives
HistoricRecordsInSeason ==
    aggregated.called =>
        \A i \in DOMAIN aggregated.out :
            /\ InSeasonMonths(aggregated.out[i].date)
            /\ aggregated.out[i].season =
                   SeasonKey(StartYearOf(aggregated.out[i].date),
                             StartYearOf(aggregated.out[i].date) + 1)

\* the rows calculateDailySnowfall writes are of ski-days from November to April
DailyRowsInSeason ==
    \A i \in DOMAIN aggregatedFile : InSeasonMonths(aggregatedFile[i].date)

\* C19: every daily record belongs to the one season its ski-day's local start
\* date gives (the year from November to December, the year minus 1 from
\* January to April), and a ski-day that starts between May 1 and October 31
\* produces no daily record, in calculateDailyAggregates and in
\* calculateDailySnowfall alike
C19_RecordsBelongToASeason ==
    /\ program = "historic" => HistoricRecordsInSeason
    /\ program = "job" => DailyRowsInSeason

\* the part of C19 that is about the historic aggregation
SeasonsOfHistoricRecords == program = "historic" => HistoricRecordsInSeason

\* the historic aggregation has dropped an hour of May 1 and kept one of the
\* ski-day of April 30 under the season 2025-26
HistoricSpringBoundary ==
    /\ program = "historic" /\ aggregated.called
    /\ \E i \in DOMAIN hourlyData : hourlyData[i].timestamp = Instant(2026, 5, 1, 10, 0)
    /\ \E i \in DOMAIN aggregated.out :
           /\ aggregated.out[i].date = DaysFromCivil(2026, 4, 30)
           /\ aggregated.out[i].season = 2526

-----------------------------------------------------------------------------
(* A run without usable readings *)

\* a run has ended with no hour that has a temperature and a precipitation,
\* stored or fetched: the hourly table holds its header only
NoUsableReadings == program = "job" /\ runs > 0 /\ weatherFile = <<>>

\* the run ended as runs with readings end: main logged its success, the
\* recompute returned
EndedOrdinarily == outcome \in {"completed successfully", "returned"}

\* C20: when a run finds no usable readings at all, main and the recompute end
\* with an explicit empty or error outcome; they do not end as an ordinary
\* successful run that wrote an empty daily table
C20_NoReadingsIsSurfaced ==
    NoUsableReadings => ~(EndedOrdinarily /\ aggregatedFile = <<>>)

-----------------------------------------------------------------------------
(* The ski-day key and the local time of the components *)

\* the hour and the calendar date of the instant in Abisko: UTC+2 in summer
\* time, UTC+1 otherwise
LocalHourOf(t) == ((t + (IF SummerTime(t, CivilFromDays(t \div 1440).year) THEN 120 ELSE 60))
                      % 1440) \div 60

LocalDateOf(t) == (t + (IF SummerTime(t, CivilFromDays(t \div 1440).year) THEN 120 ELSE 60))
                      \div 1440

\* the ski-day of an instant: the local date before its own when the local hour
\* is before 8, its own local date otherwise
SkiDayOf(t) == IF LocalHourOf(t) < 8 THEN LocalDateOf(t) - 1 ELSE LocalDateOf(t)

\* C21: for every instant the day key of the daily aggregation is the local
\* date preceding the instant's local date when its local hour is before 8 and
\* the instant's own local date otherwise, also across month ends and year
\* ends
C21_SkiDayKey ==
    localTimes.called => localTimes.out.historic.dayKey = SkiDayOf(instant)

\* the examples of C21: 03:00 local time of January 1 and of March 1 belong to
\* December 31 and to the last day of February
SkiDayKeyAcrossMonthEnds ==
    (localTimes.called /\ LocalHourOf(instant) = 3
       /\ CivilFromDays(LocalDateOf(instant)).day = 1
       /\ CivilFromDays(LocalDateOf(instant)).month \in {1, 3}) =>
        localTimes.out.historic.dayKey = LocalDateOf(instant) - 1

\* the aggregation has keyed 03:00 local time of 2024-03-01 to February 29
LeapDayKeyed ==
    /\ localTimes.called /\ instant = Instant(2024, 3, 1, 2, 0)
    /\ localTimes.out.historic.dayKey = DaysFromCivil(2024, 2, 29)

\* a component's hour and date are those of the instant in Abisko
AgreesWithLocalTime(component) ==
    /\ component.hour = LocalHourOf(instant)
    /\ component.date = LocalDateOf(instant)

\* C26: every component computes the same local hour and the same local date
\* for any instant, UTC+2 from the last Sunday of March 01:00 UTC to the last
\* Sunday of October 01:00 UTC and UTC+1 otherwise: getHourInCET and
\* getDateKeyInCET of the historic aggregator agree with those of the daily
\* update and of the browser at every instant of the year
C26_OneLocalTime ==
    localTimes.called =>
        /\ AgreesWithLocalTime(localTimes.out.historic)
        /\ AgreesWithLocalTime(localTimes.out.job)
        /\ AgreesWithLocalTime(localTimes.out.page)

\* the browser's functions give the hour and the date of Abisko at every
\* instant, and so does the daily update's date
BrowserLocalTime ==
    localTimes.called =>
        /\ AgreesWithLocalTime(localTimes.out.page)
        /\ localTimes.out.job.date = LocalDateOf(instant)

\* the daily update's hour is the browser's except at local midnight, which it
\* reads as hour 24 where Intl prints it so
DailyUpdateHour ==
    localTimes.called =>
        \/ localTimes.out.job.hour = localTimes.out.page.hour
        \/ host.h24 /\ localTimes.out.job.hour = 24 /\ localTimes.out.page.hour = 0

\* the historic aggregator agrees from April to September and from November to
\* February, where its month rule and summer time coincide
HistoricOutsideMarchAndOctober ==
    (localTimes.called /\ CivilFromDays(UtcDay(instant)).month \notin {3, 10}) =>
        AgreesWithLocalTime(localTimes.out.historic)

-----------------------------------------------------------------------------
(* The in-progress day of the front page against the daily aggregation *)

\* the key of the day calculateTodayFromHourly builds: dayStartCET
InProgressKey == getDateKeyInCET(DayStartDate(host.tz, LatestDataPoint(last24)))

\* the hours calculateTodayFromHourly selects for that day
SelectedHours == RelevantHours(host.tz, last24, DayStartDate(host.tz, LatestDataPoint(last24)))

\* the hours the daily aggregation keys to that day
KeyedHours ==
    SelectSeq(last24, LAMBDA hour : DayKeyHistoric(hour.timestamp) = InProgressKey)

\* the daily aggregation's reduction of classified hours, from hour i on
RECURSIVE ReducedFrom(_, _, _)
ReducedFrom(hours, i, totals) ==
    IF i > Len(hours) THEN totals
    ELSE ReducedFrom(hours, i + 1, AddSnow(totals, hours[i].snowfall, hours[i].slr))

\* the snowfall and the slr the daily aggregation reports for those hours
ReductionOf(hours) ==
    [snowfall |-> IF ReducedFrom(hours, 1, NewTotals).hasRain THEN RainCm
                  ELSE ReducedFrom(hours, 1, NewTotals).total,
     slr      |-> IF ReducedFrom(hours, 1, NewTotals).hasRain THEN RainSlr
                  ELSE AvgSlr(ReducedFrom(hours, 1, NewTotals))]

\* C24: calculateTodayFromHourly selects for the in-progress day exactly the
\* hours the daily aggregation keys to that ski-day, and returns for them the
\* snowfall total and the slr of the daily aggregation's reduction: without a
\* rain hour the slr is the mean weighted by snow amount over the hours with an
\* amount above 0, and 0 when there are none
C24_TodayMatchesAggregation ==
    (program = "page" /\ todayValue.called) =>
        /\ SelectedHours = KeyedHours
        /\ ~todayValue.out.null =>
               /\ todayValue.out.snowfall = ReductionOf(SelectedHours).snowfall
               /\ todayValue.out.slr = ReductionOf(SelectedHours).slr

\* the part of C24 about the values: for the hours it selected the front page
\* returns what the daily aggregation's reduction of those hours gives
TodayIsReductionOfSelected ==
    (program = "page" /\ todayValue.called /\ ~todayValue.out.null) =>
        /\ todayValue.out.snowfall = ReductionOf(SelectedHours).snowfall
        /\ todayValue.out.slr = ReductionOf(SelectedHours).slr

-----------------------------------------------------------------------------
(* The 24 slots of fetchLast24Hours *)

\* the reading with a temperature that the API gave for the hour of slot i
ReadingOf(i) ==
    CHOOSE e \in fetched : e.timestamp = last24[i].timestamp /\ e.temperature.def

HasReading(i) ==
    \E e \in fetched : e.timestamp = last24[i].timestamp /\ e.temperature.def

\* slot i is a placeholder: temperature null, the amounts 0
IsPlaceholder(i) ==
    /\ last24[i].temperature = JsNone
    /\ last24[i].precipitation = 0
    /\ last24[i].snowfall = Num(0)
    /\ last24[i].slr = Num(0)

\* slot i carries the temperature and the precipitation of its reading
CarriesReading(i) ==
    /\ last24[i].temperature = ReadingOf(i).temperature
    /\ last24[i].precipitation =
           (IF ReadingOf(i).precipitation.def THEN ReadingOf(i).precipitation.v ELSE 0)

\* slot i carries the snow amount calculateSnowfall gives for its reading
CarriesSnowfall(i) ==
    last24[i].snowfall =
        Num(calculateSnowfall(ReadingOf(i).temperature.v,
                              IF ReadingOf(i).precipitation.def
                              THEN ReadingOf(i).precipitation.v ELSE 0,
                              JsOr(ReadingOf(i).wind_speed, 0), JsOr(ReadingOf(i).humidity, 90)))

\* 24 whole hours, each an hour after the one before
ConsecutiveHours ==
    /\ Len(last24) = 24
    /\ \A i \in 1..24 : last24[i].timestamp % 60 = 0
    /\ \A i \in 1..23 : last24[i + 1].timestamp = last24[i].timestamp + 60

\* C25: fetchLast24Hours returns exactly 24 entries whose timestamps are
\* consecutive whole hours in increasing order, the last being the latest hour
\* that has a temperature reading; a slot without a reading that carries a
\* temperature is a placeholder with temperature null and precipitation,
\* snowfall and slr 0, and every other slot carries its hour's real values
C25_TwentyFourSlots ==
    (program = "page" /\ last24 # <<>>) =>
        /\ ConsecutiveHours
        /\ HasTemperature(fetched) =>
               last24[24].timestamp =
                   Max({e.timestamp : e \in {x \in fetched : x.temperature.def}})
        /\ \A i \in 1..Len(last24) :
               IF HasReading(i) THEN CarriesReading(i) /\ CarriesSnowfall(i)
               ELSE IsPlaceholder(i)

\* what does hold of the slots when a temperature has arrived: 24 consecutive
\* hours ending at the latest one with a temperature, placeholders where there
\* is no reading, the temperature and the precipitation where there is one
SlotsOfReadings ==
    (program = "page" /\ last24 # <<>> /\ HasTemperature(fetched)) =>
        /\ ConsecutiveHours
        /\ last24[24].timestamp =
               Max({e.timestamp : e \in {x \in fetched : x.temperature.def}})
        /\ \A i \in 1..Len(last24) :
               IF HasReading(i) THEN CarriesReading(i) ELSE IsPlaceholder(i)

\* a slot with a reading carries no snow amount
C25_SlotWithoutAmount ==
    /\ program = "page" /\ last24 # <<>>
    /\ \E i \in 1..Len(last24) :
           HasReading(i) /\ ReadingOf(i).precipitation = Num(10) /\ last24[i].snowfall = JsNone

\* on the morning after summer time ended the 24 slots are not consecutive hours
SlotsAcrossClockChange ==
    (program = "page" /\ last24 # <<>> /\ ~HasTemperature(fetched)) => ConsecutiveHours

-----------------------------------------------------------------------------
(* Runs of main() over overlapping fetch windows *)

\* the stored hourly table has one row per timestamp
OneRowPerTimestamp ==
    \A i, j \in DOMAIN weatherFile :
        i # j => weatherFile[i].timestamp # weatherFile[j].timestamp

\* the rows stored before a step are the first rows after it, unchanged
StoredRowsKept ==
    /\ Len(weatherFile') >= Len(weatherFile)
    /\ SubSeq(weatherFile', 1, Len(weatherFile)) = weatherFile

\* C27: after any sequence of runs of main() whose fetch windows overlap, the
\* stored hourly table holds at most one row per timestamp and no run alters a
\* row that was stored before it, so a reading counts once in a daily total
C27_OneRowPerTimestamp ==
    /\ [](program = "job" => OneRowPerTimestamp)
    /\ [][program = "job" => StoredRowsKept]_vars

\* the second run of main() fetched again a timestamp that the first had
\* stored, with different values, and the stored row is as it was
C27_Witness ==
    /\ program = "job"
    /\ runs = 2
    /\ \E i \in DOMAIN weatherFile, k \in DOMAIN apiResponse :
           /\ apiResponse[k].timestamp = weatherFile[i].timestamp
           /\ apiResponse[k].temperature.def /\ apiResponse[k].precipitation.def
           /\ apiResponse[k].temperature # weatherFile[i].temperature

-----------------------------------------------------------------------------
(* The merge of the parameter series by timestamp *)

\* the parameters in another order: from the k-th on, then the first ones
Rotated(keys, k) ==
    [i \in DOMAIN keys |-> keys[((i + k - 1) % Len(keys)) + 1]]

Reversed(keys) == [i \in DOMAIN keys |-> keys[Len(keys) + 1 - i]]

\* orders to merge the parameters in: every rotation of the order of
\* PARAMETER_CODES, and that order backwards
MergeOrders ==
    {Rotated(ParameterKeys, k) : k \in 0..(Len(ParameterKeys) - 1)}
        \cup {Reversed(ParameterKeys)}

-----------------------------------------------------------------------------
(* Overlapping loads of the history page *)

\* after the step the page shows the season: chart and subtitle, URL year, links
ShowsAfterwards(year) ==
    /\ shownYear' = Num(year)
    /\ urlYear' = Num(year)
    /\ prevLink' = PrevYear(availableSeasons, year)
    /\ nextLink' = NextYear(availableSeasons, year)

\* the step on which the last of the loadSeason calls under way is answered
LastLoadAnswered == program = "history" /\ inFlight # <<>> /\ inFlight' = <<>>

\* C29: when loadSeason calls overlapped (a click or back/forward while a fetch
\* was under way), then once all of them are answered the chart, the subtitle,
\* the URL year and the navigation links are those of the season requested
\* last, in whatever order the fetches were answered
C29_LatestRequestWins ==
    [][(LastLoadAnswered /\ overlapped /\ HasData(historicFiles, requested.v))
           => ShowsAfterwards(requested.v)]_vars

\* a loadSeason call that began with no other under way ends with its season shown
LoneLoadShowsRequested ==
    [][(LastLoadAnswered /\ ~overlapped /\ HasData(historicFiles, requested.v))
           => ShowsAfterwards(requested.v)]_vars

\* whichever call is answered last, the chart, the URL year and the links agree
\* with one another
LastAnsweredIsShown ==
    [][(LastLoadAnswered /\ HasData(historicFiles, inFlight[1]))
           => ShowsAfterwards(inFlight[1])]_vars

\* every call is answered, and the chart is of a season requested before the last
StaleSeasonShown ==
    /\ program = "history" /\ overlapped /\ inFlight = <<>>
    /\ HasData(historicFiles, requested.v)
    /\ shownYear.def /\ shownYear # requested

-----------------------------------------------------------------------------
(* The slots of a season's rows *)

\* the slot processSeasonData writes row i to
SlotOfRow(i) == dateToDayOfSeason(host.tz, seasonData[i].date)

\* row i is of a day from November through April
RowInSeason(i) ==
    CivilFromDays(seasonData[i].date).month >= 11 \/ CivilFromDays(seasonData[i].date).month <= 4

\* row i is of a February 29
RowOfLeapDay(i) ==
    CivilFromDays(seasonData[i].date).month = 2 /\ CivilFromDays(seasonData[i].date).day = 29

\* C30: the rows of distinct days of one season, February 29 among them, are
\* written to distinct slots by processSeasonData, and the row of April 30, the
\* season's final day, is written to the last index of the 182-slot series
C30_OneSlotPerDay ==
    (program = "compare" /\ seasonRecord.called) =>
        /\ \A i, k \in DOMAIN seasonData :
               (i # k /\ RowInSeason(i) /\ RowInSeason(k)) => SlotOfRow(i) # SlotOfRow(k)
        /\ \A i \in DOMAIN seasonData :
               (CivilFromDays(seasonData[i].date).month = 4
                    /\ CivilFromDays(seasonData[i].date).day = 30)
               => SlotOfRow(i) = SeasonSlots - 1

\* rows of distinct days share no slot unless one of them is of February 29
OneSlotPerDayButTheLeapDay ==
    (program = "compare" /\ seasonRecord.called) =>
        \A i, k \in DOMAIN seasonData :
            (i # k /\ RowInSeason(i) /\ RowInSeason(k)
                 /\ ~RowOfLeapDay(i) /\ ~RowOfLeapDay(k))
            => SlotOfRow(i) # SlotOfRow(k)

\* the rows of February 29 and of March 1 went to one slot of a completed season
LeapDayShareSlot ==
    /\ program = "compare" /\ seasonRecord.called /\ ~seasonRecord.isCurrent
    /\ \E i, k \in DOMAIN seasonData :
           /\ RowOfLeapDay(i) /\ k = i + 1
           /\ SlotOfRow(i) = SlotOfRow(k)
           /\ seasonRecord.data[SlotOfRow(k)].def

=============================================================================
